---------------------------- MODULE Spec2Model ----------------------------
(***************************************************************************)
(* A model of @sebalon/scripting (seb-cr/node-scripting):                  *)
(*                                                                         *)
(*   - src/src/regex.ts : escapeRegex, regex, anchoredRegex, globalRegex   *)
(*   - src/src/shell.ts : sh, sh.mock (the mock controller), sh.restore    *)
(*   - src/src/file.ts  : withFile                                         *)
(*   - src/src/text.ts  : Text.lines, replaceAll, insertLine, insertLines, *)
(*                        deleteLine, deleteEveryLine, deleteBlock,        *)
(*                        deleteEveryBlock; appendLine and appendLines as  *)
(*                        the documentation of Text describes them         *)
(*                                                                         *)
(* A JavaScript string is a sequence of one-character strings, so that     *)
(* split, join, escaping and matching are computed and not assumed.        *)
(* Spec is the shell mock state machine, MatchSpec one mock session with   *)
(* more commands and patterns, AsyncSpec one mock session with sh calls    *)
(* that are started and awaited later; TextSpec applies Text operations    *)
(* to a document drawn from a bounded set; FileSpec is withFile on a file  *)
(* drawn from a bounded set.                                               *)
(***************************************************************************)
EXTENDS Integers, Sequences, FiniteSets, TLC

VARIABLES
    shExec,     \* shell.ts:29  0 = the real exec, s > 0 = the closure installed by the s-th sh.mock()
    sessions,   \* shell.ts:168-169  the (matchers, defaults) arrays of every sh.mock() so far
    last,       \* the most recent shell call and what the caller observed of it
    inFlight,   \* shell.ts:63  the promises of the sh calls started and not awaited yet
    content,    \* text.ts:43  Text.content
    call,       \* the most recent Text call: its arguments, the content before it, what it threw
    file        \* file.ts:58-73  the file of withFile and where withFile stands

vars == <<shExec, sessions, last, inFlight, content, call, file>>

shVars == <<shExec, sessions, last, inFlight>>

textVars == <<content, call, file>>

-----------------------------------------------------------------------------
(* Bounds of the model *)

\* the mock sessions, command() controllers and queued results that exist
\* at one time, counted together
MaxSize == 5

\* lines of the initial document
MaxLines == 4

\* patterns in a block
MaxBlock == 2

-----------------------------------------------------------------------------
(* JavaScript values *)

\* an optional value is the empty set (undefined) or the set of its value
Undefined == {}

Given(v) == {v}

IsUndefined(opt) == opt = {}

ValueOf(opt) == CHOOSE v \in opt : TRUE

NL == "\n"

Min(S) == CHOOSE x \in S : \A y \in S : x <= y

Max(S) == CHOOSE x \in S : \A y \in S : x >= y

\* Array.prototype.splice(start, deleteCount, ...items), the resulting array:
\* a start beyond the length is the length, a negative start counts from the
\* end and stops at 0
Splice(arr, start, deleteCount, items) ==
    LET n == Len(arr)
        from == IF start < 0 THEN Max({n + start, 0}) ELSE Min({start, n})
        cnt == Min({Max({deleteCount, 0}), n - from})
    IN SubSeq(arr, 1, from) \o items \o SubSeq(arr, from + cnt + 1, n)

\* String.prototype.trim on the model's alphabet
IsSpace(c) == c \in {" ", NL}

RECURSIVE TrimStart(_)
TrimStart(s) ==
    IF s # <<>> /\ IsSpace(Head(s)) THEN TrimStart(Tail(s)) ELSE s

RECURSIVE TrimEnd(_)
TrimEnd(s) ==
    IF s # <<>> /\ IsSpace(s[Len(s)]) THEN TrimEnd(SubSeq(s, 1, Len(s) - 1)) ELSE s

Trim(s) == TrimEnd(TrimStart(s))

-----------------------------------------------------------------------------
(* regex.ts *)

\* the class /[.*+?^${}()|[\]\\]/ of escapeRegex
RegexSpecial == {".", "*", "+", "?", "^", "$", "{", "}", "(", ")", "|", "[", "]", "\\"}

RECURSIVE escapeRegex(_)
\* every special character gets a backslash in front of it
escapeRegex(string) ==
    IF string = <<>> THEN <<>>
    ELSE (IF Head(string) \in RegexSpecial
            THEN <<"\\", Head(string)>>
            ELSE <<Head(string)>>) \o escapeRegex(Tail(string))

\* a pattern argument: a string, or a RegExp object (its source and flags)
IsString(value) == value.type = "string"

Str(s) == [type |-> "string", value |-> s]

RegExp(source, flags) == [type |-> "RegExp", source |-> source, flags |-> flags]

regex(value) ==
    IF IsString(value) THEN RegExp(escapeRegex(value.value), {}) ELSE value

\* the string between ^ and $ with no character escaped
unescapedRegex(value) ==
    IF IsString(value)
      THEN RegExp(<<"^">> \o value.value \o <<"$">>, {})
      ELSE value

anchoredRegex(value) ==
    IF IsString(value)
      THEN RegExp(<<"^">> \o escapeRegex(value.value) \o <<"$">>, {})
      ELSE value

\* a string escaped and made global, a RegExp as it was given
globalRegexAsGiven(input) ==
    IF IsString(input) THEN RegExp(escapeRegex(input.value), {"g"}) ELSE input

\* regex.ts:49-57
globalRegex(input) ==
    IF IsString(input) THEN RegExp(escapeRegex(input.value), {"g"})
    ELSE IF "g" \in input.flags THEN input
    ELSE RegExp(input.source, input.flags \cup {"g"})

\* `${pattern}`: RegExp.prototype.toString
RegExpToString(r) ==
    <<"/">> \o (IF r.source = <<>> THEN <<"(?:)">> ELSE r.source) \o <<"/">>
        \o (IF "g" \in r.flags THEN <<"g">> ELSE <<>>)
        \o (IF "y" \in r.flags THEN <<"y">> ELSE <<>>)

CR == "\r"

(* The RegExp engine, for sources made of literal characters, escaped      *)
(* characters (\r and \n are the carriage return and the line feed), ".",  *)
(* "^" and "$".                                                            *)
RECURSIVE Atoms(_)
Atoms(src) ==
    IF src = <<>> THEN <<>>
    ELSE IF Head(src) = "\\" /\ Len(src) >= 2 /\ src[2] \in {"r", "n"}
      THEN <<[k |-> "lit", ch |-> IF src[2] = "r" THEN CR ELSE "\n"]>>
              \o Atoms(SubSeq(src, 3, Len(src)))
    ELSE IF Head(src) = "\\" /\ Len(src) >= 2
      THEN <<[k |-> "lit", ch |-> src[2]]>> \o Atoms(SubSeq(src, 3, Len(src)))
    ELSE IF Head(src) = "." THEN <<[k |-> "any", ch |-> "."]>> \o Atoms(Tail(src))
    ELSE IF Head(src) = "^" THEN <<[k |-> "bol", ch |-> "^"]>> \o Atoms(Tail(src))
    ELSE IF Head(src) = "$" THEN <<[k |-> "eol", ch |-> "$"]>> \o Atoms(Tail(src))
    ELSE <<[k |-> "lit", ch |-> Head(src)]>> \o Atoms(Tail(src))

RECURSIVE MatchHere(_, _, _)
\* the end offset of a match of atoms in s starting at offset pos, or -1
MatchHere(atoms, s, pos) ==
    IF atoms = <<>> THEN pos
    ELSE LET a == Head(atoms) IN
      CASE a.k = "bol" -> IF pos = 0 THEN MatchHere(Tail(atoms), s, pos) ELSE -1
        [] a.k = "eol" -> IF pos = Len(s) THEN MatchHere(Tail(atoms), s, pos) ELSE -1
        [] a.k = "any" -> IF pos < Len(s) /\ s[pos + 1] # NL
                            THEN MatchHere(Tail(atoms), s, pos + 1) ELSE -1
        [] OTHER       -> IF pos < Len(s) /\ s[pos + 1] = a.ch
                            THEN MatchHere(Tail(atoms), s, pos + 1) ELSE -1

\* RegExp.prototype.exec(s) on a RegExp whose lastIndex is lastIndex: whether
\* it matched, and the lastIndex it leaves. Only a global or sticky RegExp
\* reads and writes lastIndex.
RegExpExec(r, lastIndex, s) ==
    LET stateful == r.flags \cap {"g", "y"} # {}
        start == IF stateful THEN lastIndex ELSE 0
        tries == IF start > Len(s) THEN {}
                 ELSE IF "y" \in r.flags THEN {start}
                 ELSE start .. Len(s)
        hits == {i \in tries : MatchHere(Atoms(r.source), s, i) # -1}
    IN IF hits = {}
         THEN [found |-> FALSE, lastIndex |-> IF stateful THEN 0 ELSE lastIndex]
         ELSE [found |-> TRUE,
               lastIndex |-> IF stateful
                               THEN MatchHere(Atoms(r.source), s, Min(hits))
                               ELSE lastIndex]

\* whether the pattern of r occurs in s at all (a search from offset 0)
Occurs(r, s) == \E i \in 0 .. Len(s) : MatchHere(Atoms(r.source), s, i) # -1

RECURSIVE Substitution(_, _)
\* GetSubstitution of String.prototype.replace for a RegExp without groups:
\* in the replacement text $$ stands for $ and $& for the matched text
Substitution(replaceValue, matched) ==
    IF replaceValue = <<>> THEN <<>>
    ELSE IF Head(replaceValue) = "$" /\ Len(replaceValue) >= 2 /\ replaceValue[2] = "$"
      THEN <<"$">> \o Substitution(SubSeq(replaceValue, 3, Len(replaceValue)), matched)
    ELSE IF Head(replaceValue) = "$" /\ Len(replaceValue) >= 2 /\ replaceValue[2] = "&"
      THEN matched \o Substitution(SubSeq(replaceValue, 3, Len(replaceValue)), matched)
    ELSE <<Head(replaceValue)>> \o Substitution(Tail(replaceValue), matched)

RECURSIVE ReplaceFrom(_, _, _, _)
\* String.prototype.replace(r, replaceValue) from offset pos of s on: the text
\* from pos to the end with the matches replaced. A RegExp that is not global
\* has its first match replaced; a global one is executed again from the end
\* of each match, one character further after an empty match, and what a
\* replacement put in is never matched.
ReplaceFrom(r, s, pos, replaceValue) ==
    LET atoms == Atoms(r.source)
        tries == IF "y" \in r.flags THEN {pos} ELSE pos .. Len(s)
        hits == {i \in tries : MatchHere(atoms, s, i) # -1}
    IN IF hits = {} THEN SubSeq(s, pos + 1, Len(s))
       ELSE LET i == Min(hits)
                e == MatchHere(atoms, s, i)
                put == SubSeq(s, pos + 1, i)
                          \o Substitution(replaceValue, SubSeq(s, i + 1, e))
            IN IF "g" \notin r.flags THEN put \o SubSeq(s, e + 1, Len(s))
               ELSE IF e > i THEN put \o ReplaceFrom(r, s, e, replaceValue)
               ELSE IF i < Len(s)
                 THEN put \o <<s[i + 1]>> \o ReplaceFrom(r, s, i + 1, replaceValue)
               ELSE put

\* String.prototype.replace(r, replaceValue): a global RegExp starts at 0
Replace(s, r, replaceValue) == ReplaceFrom(r, s, 0, replaceValue)

-----------------------------------------------------------------------------
(* shell.ts: the inputs *)

Commands == {<<"a">>, <<"a", "b">>}

\* the arguments given to command(): the string 'a' and the RegExp /a/g
CommandPatterns ==
    {Str(<<"a">>), RegExp(<<"a">>, {"g"})}

\* the commands and command() arguments that tell an exact match from a
\* RegExp match: the command '.' and the string '.' added
MatchCommands == Commands \cup {<<".">>}

MatchPatterns == CommandPatterns \cup {Str(<<".">>)}

\* the arguments given to returns(): stdout only, and exitCode with stderr
MockArgs ==
    {[exitCode |-> Undefined, stdout |-> Given(<<" ", "y">>), stderr |-> Undefined],
     [exitCode |-> Given(1), stdout |-> Undefined, stderr |-> Given(<<"e">>)]}

\* options.trim of sh(command, options)
TrimOptions == {Undefined, Given(FALSE)}

\* what the real executor may answer (the operating system decides)
ExecAnswers ==
    {[exitCode |-> 0, stdout |-> <<"r", NL>>, stderr |-> <<>>],
     [exitCode |-> 1, stdout |-> <<>>, stderr |-> <<"e">>]}

-----------------------------------------------------------------------------
(* shell.ts: sh.mock *)

\* arrays kept from one sh.mock() to the next
KeptSession ==
    IF sessions = <<>>
      THEN [defaults |-> <<>>, matchers |-> <<>>, ctrls |-> <<>>]
      ELSE sessions[Len(sessions)]

\* the closure state a successful sh.mock() creates (shell.ts:168-169).
\* ctrls holds the `mocks` array and RegExp of every command() call of the
\* session, in creation order; matchers holds the indices of those that are
\* in the `matchers` array, in array order.
NewSession == [defaults |-> <<>>, matchers |-> <<>>, ctrls |-> <<>>]

\* const { exitCode = 0, stdout = '', stderr = '' } = mock ?? {}
MockOf(mock) ==
    [exitCode |-> IF IsUndefined(mock.exitCode) THEN 0 ELSE ValueOf(mock.exitCode),
     stdout   |-> IF IsUndefined(mock.stdout) THEN <<>> ELSE ValueOf(mock.stdout),
     stderr   |-> IF IsUndefined(mock.stderr) THEN <<>> ELSE ValueOf(mock.stderr)]

\* Array.prototype.unshift in the place of push
Unshift(arr, item) == <<item>> \o arr

\* Array.prototype.push
Push(arr, item) == Append(arr, item)

\* Array.prototype.pop in the place of shift
Pop(arr) == [mock |-> arr[Len(arr)], rest |-> SubSeq(arr, 1, Len(arr) - 1)]

\* the first element read and left in the array
Peek(arr) == [mock |-> Head(arr), rest |-> arr]

\* shell.ts:173  Array.prototype.shift: the element taken and the array left
Shift(arr) == [mock |-> Head(arr), rest |-> Tail(arr)]

\* an exit code test that lets the exit code 1 pass
MockFailsAboveOne(mock) == mock.exitCode > 1

\* shell.ts:177
MockFails(mock) == mock.exitCode # 0

RECURSIVE SumLen(_)
SumLen(qs) == IF qs = <<>> THEN 0 ELSE Len(Head(qs)) + SumLen(Tail(qs))

RECURSIVE Size(_)
\* how many sessions, controllers and queued results there are
Size(ss) ==
    IF ss = <<>> THEN 0
    ELSE 1 + Len(Head(ss).defaults) + Len(Head(ss).ctrls)
           + SumLen([c \in 1 .. Len(Head(ss).ctrls) |-> Head(ss).ctrls[c].mocks])
           + Size(Tail(ss))

NoLast == [op |-> "none", outcome |-> "returned", command |-> <<>>, trim |-> Undefined,
           value |-> <<>>, via |-> "none", from |-> -1,
           code |-> Undefined, stderr |-> Undefined]

Did(op, outcome, value) ==
    [op |-> op, outcome |-> outcome, command |-> <<>>, trim |-> Undefined,
     value |-> value, via |-> "none", from |-> -1,
     code |-> Undefined, stderr |-> Undefined]

\* the messages of shell.ts:164 and shell.ts:222 (the source writes sh
\* between backquotes, which a TLA+ string cannot hold)
AlreadyMocked == <<"'sh' is already mocked">>

NotUsed == <<"Some 'sh' mocks were not used">>

NoMockFound(command) == <<"No mock found for command: ">> \o command

CommandFailed(command, stderr) ==
    <<"Command failed: ">> \o command \o <<NL>> \o stderr

\* sh.mock() without the test of shell.ts:163
MockUnguarded ==
    /\ Size(sessions) < MaxSize
    /\ sessions' = Append(sessions, NewSession)
    /\ shExec' = Len(sessions) + 1
    /\ last' = Did("mock", "returned", <<>>)
    /\ UNCHANGED <<textVars, inFlight>>

\* shell.ts:162-233
Mock ==
    /\ IF shExec # 0
         THEN /\ last' = Did("mock", "threw", AlreadyMocked)
              /\ UNCHANGED <<shExec, sessions>>
         ELSE /\ Size(sessions) < MaxSize
              /\ sessions' = Append(sessions, NewSession)
              /\ shExec' = Len(sessions) + 1
              /\ last' = Did("mock", "returned", <<>>)
    /\ UNCHANGED <<textVars, inFlight>>

\* shell.ts:238-240
Restore ==
    /\ shExec' = 0
    /\ last' = Did("restore", "returned", <<>>)
    /\ UNCHANGED <<sessions, textVars, inFlight>>

\* shell.ts:184-192  mockController.returns of session s
Returns(s, mock) ==
    /\ s \in 1 .. Len(sessions)
    /\ Size(sessions) < MaxSize
    /\ sessions' = [sessions EXCEPT ![s].defaults = Push(@, MockOf(mock))]
    /\ last' = Did("returns", "returned", <<>>)
    /\ UNCHANGED <<shExec, textVars, inFlight>>

\* command() that hands out the queue of an earlier command() call with the
\* same pattern
CommandReusing(s, command) ==
    /\ s \in 1 .. Len(sessions)
    /\ Size(sessions) < MaxSize
    /\ LET same == {c \in 1 .. Len(sessions[s].ctrls) :
                       sessions[s].ctrls[c].r = anchoredRegex(command)}
       IN sessions' = IF same = {}
            THEN [sessions EXCEPT
                    ![s].ctrls = Push(@, [r |-> anchoredRegex(command), lastIndex |-> 0,
                                          mocks |-> <<>>]),
                    ![s].matchers = Push(@, Len(sessions[s].ctrls) + 1)]
            ELSE [sessions EXCEPT ![s].matchers = Push(@, Min(same))]
    /\ last' = Did("command", "returned", <<>>)
    /\ UNCHANGED <<shExec, textVars, inFlight>>

\* shell.ts:194-215  mockController.command of session s (cmdController.command
\* of shell.ts:209-211 is the same call)
Command(s, command) ==
    /\ s \in 1 .. Len(sessions)
    /\ Size(sessions) < MaxSize
    /\ sessions' = [sessions EXCEPT
          ![s].ctrls = Push(@, [r |-> anchoredRegex(command), lastIndex |-> 0,
                                mocks |-> <<>>]),
          ![s].matchers = Push(@, Len(sessions[s].ctrls) + 1)]
    /\ last' = Did("command", "returned", <<>>)
    /\ UNCHANGED <<shExec, textVars, inFlight>>

\* shell.ts:199-207  returns of the cmdController of the c-th command() call
CmdReturns(s, c, mock) ==
    /\ s \in 1 .. Len(sessions)
    /\ c \in 1 .. Len(sessions[s].ctrls)
    /\ Size(sessions) < MaxSize
    /\ sessions' = [sessions EXCEPT ![s].ctrls[c].mocks = Push(@, MockOf(mock))]
    /\ last' = Did("returns", "returned", <<>>)
    /\ UNCHANGED <<shExec, textVars, inFlight>>

\* the test of shell.ts:219 without that of shell.ts:220
UnconsumedDefaults(sess) == Len(sess.defaults) > 0

\* shell.ts:217-224
Unconsumed(sess) ==
    \/ Len(sess.defaults) > 0
    \/ \E k \in 1 .. Len(sess.matchers) : Len(sess.ctrls[sess.matchers[k]].mocks) > 0

AssertDone(s) ==
    /\ s \in 1 .. Len(sessions)
    /\ last' = IF Unconsumed(sessions[s])
                 THEN Did("assertDone", "threw", NotUsed)
                 ELSE Did("assertDone", "returned", <<>>)
    /\ UNCHANGED <<shExec, sessions, textVars, inFlight>>

\* reset() without the splice of shell.ts:227
ResetDefaults(s) ==
    /\ s \in 1 .. Len(sessions)
    /\ sessions' = [sessions EXCEPT ![s].defaults = <<>>]
    /\ last' = Did("reset", "returned", <<>>)
    /\ UNCHANGED <<shExec, textVars, inFlight>>

\* shell.ts:226-229
Reset(s) ==
    /\ s \in 1 .. Len(sessions)
    /\ sessions' = [sessions EXCEPT ![s].matchers = <<>>, ![s].defaults = <<>>]
    /\ last' = Did("reset", "returned", <<>>)
    /\ UNCHANGED <<shExec, textVars, inFlight>>

RECURSIVE FindMatch(_, _, _, _)
\* shell.ts:172  matchers.find(([r, m]) => m.length > 0 && r.exec(command)),
\* from array position k on: the position found (0: none) and the ctrls with
\* the lastIndex every r.exec call left
FindMatch(ctrls, matchers, k, command) ==
    IF k > Len(matchers) THEN [match |-> 0, ctrls |-> ctrls]
    ELSE LET c == matchers[k] IN
      IF Len(ctrls[c].mocks) = 0 THEN FindMatch(ctrls, matchers, k + 1, command)
      ELSE LET x == RegExpExec(ctrls[c].r, ctrls[c].lastIndex, command)
               after == [ctrls EXCEPT ![c].lastIndex = x.lastIndex]
           IN IF x.found THEN [match |-> k, ctrls |-> after]
              ELSE FindMatch(after, matchers, k + 1, command)

\* the executor's stdout as it is, whatever options.trim is
ShOutputRaw(stdout, trim) == stdout

\* shell.ts:63-70  what sh makes of the executor's stdout
ShOutput(stdout, trim) ==
    \* options?.trim ?? true
    IF (IF IsUndefined(trim) THEN TRUE ELSE ValueOf(trim)) THEN Trim(stdout) ELSE stdout

\* shell.ts:171-181 behind shell.ts:63-70: sh(command, {trim}) while the
\* closure of session s is installed
ShMocked(s, command, trim) ==
    LET sess == sessions[s]
        found == FindMatch(sess.ctrls, sess.matchers, 1, command)
        c == sess.matchers[found.match]
        queue == IF found.match # 0 THEN found.ctrls[c].mocks ELSE sess.defaults
        searched == [sess EXCEPT !.ctrls = found.ctrls]
    IN IF queue = <<>>
         THEN /\ sessions' = [sessions EXCEPT ![s] = searched]
              /\ last' = [op |-> "sh", outcome |-> "rejected", command |-> command, trim |-> trim,
                          value |-> NoMockFound(command), via |-> "mock", from |-> -1,
                          code |-> Undefined, stderr |-> Undefined]
         ELSE LET mock == Shift(queue).mock IN
              /\ sessions' = [sessions EXCEPT ![s] =
                    IF found.match # 0
                      THEN [searched EXCEPT !.ctrls[c].mocks = Shift(queue).rest]
                      ELSE [searched EXCEPT !.defaults = Shift(queue).rest]]
              /\ last' = IF MockFails(mock)
                    THEN [op |-> "sh", outcome |-> "rejected", command |-> command, trim |-> trim,
                          value |-> CommandFailed(command, mock.stderr),
                          via |-> "mock", from |-> found.match,
                          code |-> Undefined, stderr |-> Undefined]
                    ELSE [op |-> "sh", outcome |-> "resolved", command |-> command, trim |-> trim,
                          value |-> ShOutput(mock.stdout, trim),
                          via |-> "mock", from |-> found.match,
                          code |-> Undefined, stderr |-> Undefined]

\* shell.ts:24 behind shell.ts:63-70: sh(command, {trim}) while shExec is the
\* real exec, which answers as the operating system decides
ShLive(command, trim, answer) ==
    /\ sessions' = sessions
    /\ last' = IF answer.exitCode # 0
          THEN [op |-> "sh", outcome |-> "rejected", command |-> command, trim |-> trim,
                value |-> CommandFailed(command, answer.stderr),
                via |-> "exec", from |-> -1,
                code |-> Given(answer.exitCode), stderr |-> Given(answer.stderr)]
          ELSE [op |-> "sh", outcome |-> "resolved", command |-> command, trim |-> trim,
                value |-> ShOutput(answer.stdout, trim), via |-> "exec", from |-> -1,
                code |-> Undefined, stderr |-> Undefined]

\* shell.ts:63-70
Sh(command, trim) ==
    /\ IF shExec = 0
         THEN \E answer \in ExecAnswers : ShLive(command, trim, answer)
         ELSE ShMocked(shExec, command, trim)
    /\ UNCHANGED <<shExec, textVars, inFlight>>

ShInit ==
    /\ shExec = 0
    /\ sessions = <<>>
    /\ last = NoLast
    /\ inFlight = <<>>

-----------------------------------------------------------------------------
(* text.ts: strings and lines *)

RECURSIVE Split(_)
\* String.prototype.split('\n'): never empty, '' splits into ['']
Split(s) ==
    IF \A i \in 1 .. Len(s) : s[i] # NL THEN <<s>>
    ELSE LET i == Min({j \in 1 .. Len(s) : s[j] = NL})
         IN <<SubSeq(s, 1, i - 1)>> \o Split(SubSeq(s, i + 1, Len(s)))

RECURSIVE Join(_)
\* Array.prototype.join('\n')
Join(ls) ==
    IF ls = <<>> THEN <<>>
    ELSE IF Len(ls) = 1 THEN ls[1]
    ELSE ls[1] \o <<NL>> \o Join(Tail(ls))

\* the lines without the empty one a line break at the end gives
linesChomped(c) ==
    LET ls == Split(c)
    IN IF Len(ls) > 1 /\ ls[Len(ls)] = <<>> THEN SubSeq(ls, 1, Len(ls) - 1) ELSE ls

\* text.ts:52-54
lines(c) == Split(c)

\* line.match(pattern) as a condition, for a RegExp that is not sticky: the
\* search starts at offset 0 whatever the RegExp matched before
Matches(line, pattern) == RegExpExec(pattern, 0, line).found

\* Array.prototype.findIndex, as a 0-based index, -1 when there is none
FindIndex(n, Test(_)) ==
    IF \E i \in 0 .. n - 1 : Test(i) THEN Min({i \in 0 .. n - 1 : Test(i)}) ELSE -1

\* the 0-based indices of the lines that match, ascending (map/filter/map
\* of text.ts:106-108)
RECURSIVE MatchingRows(_, _, _)
MatchingRows(ls, pattern, from) ==
    IF from >= Len(ls) THEN <<>>
    ELSE (IF Matches(ls[from + 1], pattern) THEN <<from>> ELSE <<>>)
            \o MatchingRows(ls, pattern, from + 1)

-----------------------------------------------------------------------------
(* text.ts: the inputs *)

\* the lines documents are made of
LineSet == {<<>>, <<"a">>, <<"b">>, <<"a", "b">>}

Contents == {Join(ls) : ls \in UNION {[1 .. n -> LineSet] : n \in 1 .. MaxLines}}

\* string | RegExp arguments: '', 'a', 'b' and /^a$/
TextPatterns == {Str(<<>>), Str(<<"a">>), Str(<<"b">>), RegExp(<<"^", "a", "$">>, {})}

Blocks == UNION {[1 .. n -> TextPatterns] : n \in 0 .. MaxBlock}

\* the lines given to insertLine
NewLines == {<<"z">>, <<"a">>}

\* the arrays given to insertLines and appendLines
LineArrays == {<<>>, <<(<<"z">>)>>, <<(<<"z">>), (<<"a">>)>>}

\* the lines given to appendLine: z, a, and z between two line breaks
AppendedLines == NewLines \cup {<<NL, "z", NL>>}

\* the search values given to replaceAll: 'a', '.', '', /a/, /a/g, /./, /b$/
SearchValues ==
    {Str(<<"a">>), Str(<<".">>), Str(<<>>),
     RegExp(<<"a">>, {}), RegExp(<<"a">>, {"g"}), RegExp(<<".">>, {}),
     RegExp(<<"b", "$">>, {})}

\* the replacements given to replaceAll: 'z', 'aa', '$&z'
Replacements == {<<"z">>, <<"a", "a">>, <<"$", "&", "z">>}

AtValues == (0 - 2 * MaxLines - 2) .. (MaxLines + 1)

LocatorKeys == <<"at", "above", "aboveEvery", "below", "belowEvery">>

NoKeys == [at |-> Undefined, above |-> Undefined, aboveEvery |-> Undefined,
           below |-> Undefined, belowEvery |-> Undefined]

\* InsertLineOptions objects: one key, no key, and some with two keys
Locators ==
    {[NoKeys EXCEPT !.at = Given(k)] : k \in AtValues}
    \cup {[NoKeys EXCEPT !.above = Given(p)] : p \in TextPatterns}
    \cup {[NoKeys EXCEPT !.below = Given(p)] : p \in TextPatterns}
    \cup {[NoKeys EXCEPT !.aboveEvery = Given(p)] : p \in TextPatterns}
    \cup {[NoKeys EXCEPT !.belowEvery = Given(p)] : p \in TextPatterns}
    \cup {NoKeys,
          [NoKeys EXCEPT !.at = Given(0), !.above = Given(Str(<<"a">>))],
          [NoKeys EXCEPT !.at = Given(1), !.belowEvery = Given(Str(<<"a">>))],
          [NoKeys EXCEPT !.above = Given(Str(<<"a">>)), !.below = Given(Str(<<"b">>))]}

-----------------------------------------------------------------------------
(* text.ts: Text *)

NoCall == [op |-> "none", before |-> <<>>, line |-> <<>>, where |-> NoKeys,
           block |-> <<>>, threw |-> FALSE, message |-> <<>>]

\* no withFile has been called
NoFile == [pc |-> "none", disk |-> <<>>, eol |-> <<>>, originalContent |-> <<>>,
           written |-> <<>>]

\* the state after `new Text(c)`
New(c) == [NoCall EXCEPT !.op = "new", !.before = c]

\* JavaScript truthiness of a locator value (the `v &&` of text.ts:82 and
\* the `||` of text.ts:95-105): undefined, 0 and '' are falsy
TruthyNumber(opt) == ~IsUndefined(opt) /\ ValueOf(opt) # 0

TruthyPattern(opt) ==
    ~IsUndefined(opt) /\ (IsString(ValueOf(opt)) => ValueOf(opt).value # <<>>)

\* text.ts:81-83, in the order of locatorKeys
UsedKeys(where) ==
    (IF TruthyNumber(where.at) THEN <<"at">> ELSE <<>>)
    \o (IF TruthyPattern(where.above) THEN <<"above">> ELSE <<>>)
    \o (IF TruthyPattern(where.aboveEvery) THEN <<"aboveEvery">> ELSE <<>>)
    \o (IF TruthyPattern(where.below) THEN <<"below">> ELSE <<>>)
    \o (IF TruthyPattern(where.belowEvery) THEN <<"belowEvery">> ELSE <<>>)

RECURSIVE JoinKeys(_)
\* keys.join(', ')
JoinKeys(keys) ==
    IF keys = <<>> THEN <<>>
    ELSE IF Len(keys) = 1 THEN keys
    ELSE <<keys[1], ", ">> \o JoinKeys(Tail(keys))

OnlyOneKey(used) == <<"Please specify only one of these keys: ">> \o JoinKeys(used)

OneKey == <<"Please specify one of these keys: ">> \o JoinKeys(LocatorKeys)

NoLineFound(pattern) == <<"No line found matching ">> \o RegExpToString(pattern)

RECURSIVE JoinPatterns(_)
\* patterns.join('\n')
JoinPatterns(patterns) ==
    IF patterns = <<>> THEN <<>>
    ELSE IF Len(patterns) = 1 THEN RegExpToString(patterns[1])
    ELSE RegExpToString(patterns[1]) \o <<NL>> \o JoinPatterns(Tail(patterns))

\* the message with the first pattern of the block only
NoBlockFoundFirst(patterns) ==
    <<"No block found matching", NL, NL>> \o RegExpToString(patterns[1])

NoBlockFound(patterns) ==
    <<"No block found matching", NL, NL>> \o JoinPatterns(patterns)

Threw(message) == [threw |-> TRUE, message |-> message, content |-> <<>>]

Returned(c) == [threw |-> FALSE, message |-> <<>>, content |-> c]

\* text.ts:91-93
AtPosition(at, n) == IF at >= 0 THEN at ELSE at + n + 1

RECURSIVE InsertAtRows(_, _, _, _, _)
\* text.ts:109-111  rows.forEach((row, index) => lines.splice(row + offset + index, 0, line))
InsertAtRows(ls, rows, index, offset, line) ==
    IF index >= Len(rows) THEN ls
    ELSE InsertAtRows(Splice(ls, rows[index + 1] + offset + index, 0, <<line>>),
                      rows, index + 1, offset, line)

\* text.ts:73-117  what insertLine(line, where) does to a Text whose content is c
insertLine(c, line, where) ==
    LET usedKeys == UsedKeys(where)
        ls == lines(c)
    IN
    IF Len(usedKeys) > 1 THEN Threw(OnlyOneKey(usedKeys))
    ELSE IF ~IsUndefined(where.at) THEN
        Returned(Join(Splice(ls, AtPosition(ValueOf(where.at), Len(ls)), 0, <<line>>)))
    ELSE IF TruthyPattern(where.above) \/ TruthyPattern(where.below) THEN
        LET offset == IF TruthyPattern(where.above) THEN 0 ELSE 1
            pattern == regex(IF TruthyPattern(where.above)
                               THEN ValueOf(where.above) ELSE ValueOf(where.below))
            Test(i) == Matches(ls[i + 1], pattern)
            row == FindIndex(Len(ls), Test)
        IN IF row = -1 THEN Threw(NoLineFound(pattern))
           ELSE Returned(Join(Splice(ls, row + offset, 0, <<line>>)))
    ELSE IF TruthyPattern(where.aboveEvery) \/ TruthyPattern(where.belowEvery) THEN
        LET offset == IF TruthyPattern(where.aboveEvery) THEN 0 ELSE 1
            pattern == regex(IF TruthyPattern(where.aboveEvery)
                               THEN ValueOf(where.aboveEvery) ELSE ValueOf(where.belowEvery))
            rows == MatchingRows(ls, pattern, 0)
        IN Returned(Join(InsertAtRows(ls, rows, 0, offset, line)))
    ELSE Threw(OneKey)

RECURSIVE insertLinesEach(_, _, _)
\* one insertLine per given line, each with the same locator
insertLinesEach(c, ls, where) ==
    IF ls = <<>> THEN Returned(c)
    ELSE LET first == insertLine(c, Head(ls), where)
         IN IF first.threw THEN first
            ELSE insertLinesEach(first.content, Tail(ls), where)

\* insertLine(lines.join('\n'), where) whatever the length of the array
insertLinesAlways(c, ls, where) == insertLine(c, Join(ls), where)

\* text.ts:125-129
insertLines(c, ls, where) ==
    IF Len(ls) > 0 THEN insertLine(c, Join(ls), where) ELSE Returned(c)

\* the first line that matches stays and the last one goes
deleteLineLast(c, line) ==
    LET ls == lines(c)
        pattern == regex(line)
        rows == MatchingRows(ls, pattern, 0)
    IN IF rows = <<>> THEN Threw(NoLineFound(pattern))
       ELSE Returned(Join(Splice(ls, rows[Len(rows)], 1, <<>>)))

\* the line after the first line that matches goes
deleteLineBelow(c, line) ==
    LET ls == lines(c)
        pattern == regex(line)
        Test(i) == Matches(ls[i + 1], pattern)
        row == FindIndex(Len(ls), Test)
    IN IF row = -1 THEN Threw(NoLineFound(pattern))
       ELSE Returned(Join(Splice(ls, row + 1, 1, <<>>)))

\* text.ts:136-145
deleteLine(c, line) ==
    LET ls == lines(c)
        pattern == regex(line)
        Test(i) == Matches(ls[i + 1], pattern)
        row == FindIndex(Len(ls), Test)
    IN IF row = -1 THEN Threw(NoLineFound(pattern))
       ELSE Returned(Join(Splice(ls, row, 1, <<>>)))

RECURSIVE RemoveRowsUnshifted(_, _, _)
\* lines.splice(row, 1) for every row, the rows not moved by what was removed
\* before them
RemoveRowsUnshifted(ls, rows, index) ==
    IF index >= Len(rows) THEN ls
    ELSE RemoveRowsUnshifted(Splice(ls, rows[index + 1], 1, <<>>), rows, index + 1)

RECURSIVE RemoveRows(_, _, _)
\* text.ts:158-160  rows.forEach((row, index) => lines.splice(row - index, 1))
RemoveRows(ls, rows, index) ==
    IF index >= Len(rows) THEN ls
    ELSE RemoveRows(Splice(ls, rows[index + 1] - index, 1, <<>>), rows, index + 1)

\* text.ts:152-162
deleteEveryLine(c, line) ==
    LET ls == lines(c)
        pattern == regex(line)
        rows == MatchingRows(ls, pattern, 0)
    IN Returned(Join(RemoveRows(ls, rows, 0)))

\* block.map((it) => regex(it))
Patterns(block) == [j \in 1 .. Len(block) |-> regex(block[j])]

\* text.ts:179-181  whether the lines from 0-based index on match the
\* patterns one for one (index <= maxIndex is text.ts:177,179)
BlockAt(ls, patterns, index) ==
    /\ index <= Len(ls) - Len(patterns)
    /\ \A offset \in 0 .. Len(patterns) - 1 :
          Matches(ls[index + offset + 1], patterns[offset + 1])

\* the first line of the first matching run goes and the rest of the run stays
deleteBlockLine(c, block) ==
    IF Len(block) = 0 THEN Returned(c)
    ELSE LET ls == lines(c)
             patterns == Patterns(block)
             Test(i) == BlockAt(ls, patterns, i)
             row == FindIndex(Len(ls), Test)
         IN IF row = -1 THEN Threw(NoBlockFound(patterns))
            ELSE Returned(Join(Splice(ls, row, 1, <<>>)))

\* text.ts:170-188
deleteBlock(c, block) ==
    IF Len(block) = 0 THEN Returned(c)
    ELSE LET ls == lines(c)
             patterns == Patterns(block)
             Test(i) == BlockAt(ls, patterns, i)
             row == FindIndex(Len(ls), Test)
         IN IF row = -1 THEN Threw(NoBlockFound(patterns))
            ELSE Returned(Join(Splice(ls, row, Len(block), <<>>)))

\* text.ts:203-204  the scan's variables before the first line
ScanStart == [rows |-> <<>>, matchRow |-> -1, matches |-> 0]

\* text.ts:206-221  one turn of lines.forEach: the scan's variables after the
\* line at 0-based index
ScanLine(st, line, index, patterns) ==
    IF Matches(line, patterns[st.matches + 1]) THEN
        LET matchRow == IF st.matches = 0 THEN index ELSE st.matchRow
            matches == st.matches + 1
        IN IF matches = Len(patterns)
             THEN [rows |-> Append(st.rows, matchRow), matchRow |-> matchRow, matches |-> 0]
             ELSE [rows |-> st.rows, matchRow |-> matchRow, matches |-> matches]
    ELSE IF st.matches > 0 THEN
        IF Matches(line, patterns[1])
          THEN [st EXCEPT !.matches = 1]
          ELSE [st EXCEPT !.matches = 0]
    ELSE st

RECURSIVE Scan(_, _, _)
\* text.ts:205-222  the scan's variables after the first n lines
Scan(ls, patterns, n) ==
    IF n = 0 THEN ScanStart
    ELSE ScanLine(Scan(ls, patterns, n - 1), ls[n], n - 1, patterns)

RECURSIVE DeleteRows(_, _, _, _)
\* text.ts:223-225  rows.forEach((row, index) => lines.splice(row - index * block.length, block.length))
DeleteRows(ls, rows, index, len) ==
    IF index >= Len(rows) THEN ls
    ELSE DeleteRows(Splice(ls, rows[index + 1] - index * len, len, <<>>),
                    rows, index + 1, len)

\* the first of the runs found goes and the others stay
deleteEveryBlockOnce(c, block) ==
    IF Len(block) = 0 THEN Returned(c)
    ELSE LET ls == lines(c)
             rows == Scan(ls, Patterns(block), Len(ls)).rows
             first == IF rows = <<>> THEN rows ELSE <<rows[1]>>
         IN Returned(Join(DeleteRows(ls, first, 0, Len(block))))

\* text.ts:195-227
deleteEveryBlock(c, block) ==
    IF Len(block) = 0 THEN Returned(c)
    ELSE LET ls == lines(c)
             rows == Scan(ls, Patterns(block), Len(ls)).rows
         IN Returned(Join(DeleteRows(ls, rows, 0, Len(block))))

\* text.ts:62-65
replaceAll(c, searchValue, replaceValue) ==
    Returned(Replace(c, globalRegex(searchValue), replaceValue))

\* the content with a line break put after it unless it is empty or ends
\* with one already
EndLine(c) == IF c # <<>> /\ c[Len(c)] # NL THEN c \o <<NL>> ELSE c

RECURSIVE Terminated(_)
\* the given lines one after the other, a line break after each
Terminated(ls) ==
    IF ls = <<>> THEN <<>> ELSE Head(ls) \o <<NL>> \o Terminated(Tail(ls))

\* the line put right after the content, whatever the content ends with
appendLineUnbroken(c, line) == Returned(c \o line \o <<NL>>)

\* appendLine(line) as the documentation of Text describes it
appendLine(c, line) == Returned(EndLine(c) \o line \o <<NL>>)

\* appendLines(lines) as the documentation of Text describes it
appendLines(c, ls) == Returned(EndLine(c) \o Terminated(ls))

\* a method call that assigns this.content whether it throws or not
ApplyEager(op, result, line, where, block) ==
    /\ call.op = "new"
    /\ content' = result.content
    /\ call' = [op |-> op, before |-> content, line |-> line, where |-> where,
                block |-> block, threw |-> result.threw, message |-> result.message]
    /\ UNCHANGED <<shVars, file>>

\* a method call on the Text: this.content is assigned as the last statement
\* of a method (text.ts:64, 116, 144, 161, 187, 226), after every throw
Apply(op, result, line, where, block) ==
    /\ call.op = "new"
    /\ content' = IF result.threw THEN content ELSE result.content
    /\ call' = [op |-> op, before |-> content, line |-> line, where |-> where,
                block |-> block, threw |-> result.threw, message |-> result.message]
    /\ UNCHANGED <<shVars, file>>

InsertLine(line, where) ==
    Apply("insertLine", insertLine(content, line, where), line, where, <<>>)

\* the pattern of deleteLine is recorded as a block of one pattern
DeleteLine(line) ==
    Apply("deleteLine", deleteLine(content, line), <<>>, NoKeys, <<line>>)

DeleteBlock(block) ==
    Apply("deleteBlock", deleteBlock(content, block), <<>>, NoKeys, block)

DeleteEveryBlock(block) ==
    Apply("deleteEveryBlock", deleteEveryBlock(content, block), <<>>, NoKeys, block)

\* the array of insertLines is recorded as the block of the call
InsertLines(ls, where) ==
    Apply("insertLines", insertLines(content, ls, where), <<>>, where, ls)

\* the pattern of deleteEveryLine is recorded as a block of one pattern
DeleteEveryLine(line) ==
    Apply("deleteEveryLine", deleteEveryLine(content, line), <<>>, NoKeys, <<line>>)

\* the search value is recorded as a block of one pattern, the replacement
\* as the line of the call
ReplaceAll(searchValue, replaceValue) ==
    Apply("replaceAll", replaceAll(content, searchValue, replaceValue),
          replaceValue, NoKeys, <<searchValue>>)

AppendLine(line) ==
    Apply("appendLine", appendLine(content, line), line, NoKeys, <<>>)

\* the array of appendLines is recorded as the block of the call
AppendLines(ls) ==
    Apply("appendLines", appendLines(content, ls), <<>>, NoKeys, ls)

\* the caller goes on to its next call on the same Text
NextCall ==
    /\ call.op \notin {"none", "new"}
    /\ content \in Contents
    /\ call' = New(content)
    /\ UNCHANGED <<content, shVars, file>>

TextInit ==
    /\ content \in Contents
    /\ call = New(content)
    /\ file = NoFile
    /\ ShInit

TextNext ==
    \/ \E line \in NewLines, where \in Locators : InsertLine(line, where)
    \/ \E ls \in LineArrays, where \in Locators : InsertLines(ls, where)
    \/ \E line \in TextPatterns : DeleteLine(line)
    \/ \E line \in TextPatterns : DeleteEveryLine(line)
    \/ \E block \in Blocks : DeleteBlock(block)
    \/ \E block \in Blocks : DeleteEveryBlock(block)
    \/ \E searchValue \in SearchValues, replaceValue \in Replacements :
          ReplaceAll(searchValue, replaceValue)
    \/ \E line \in AppendedLines : AppendLine(line)
    \/ \E ls \in LineArrays : AppendLines(ls)
    \/ NextCall

TextSpec == TextInit /\ [][TextNext]_vars

-----------------------------------------------------------------------------
(* file.ts: withFile *)

\* characters in the file on disk
MaxFile == 3

\* what the file holds before withFile: a, carriage returns and line feeds
RawContents == UNION {[1 .. n -> {"a", CR, NL}] : n \in 0 .. MaxFile}

\* os.EOL: '\n' on POSIX, '\r\n' on Windows
EOLs == {<<NL>>, <<CR, NL>>}

\* what the callback may leave in f.content
CallbackContents == UNION {[1 .. n -> {"a", NL}] : n \in 0 .. MaxFile}

\* only the pairs of carriage return and line feed become a line feed
originalContentOfPairs(rawContent) ==
    Replace(rawContent, RegExp(<<"\\", "r", "\\", "n">>, {"g"}), <<NL>>)

\* file.ts:63-65
originalContent(rawContent) ==
    Replace(Replace(rawContent, RegExp(<<"\\", "r", "\\", "n">>, {"g"}), <<CR>>),
            RegExp(<<"\\", "r">>, {"g"}), <<NL>>)

\* file.ts:71  f.content.replace(/\n/g, EOL)
Encoded(c, eol) == Replace(c, RegExp(<<"\\", "n">>, {"g"}), eol)

\* file.ts:62-67  the file is read and the Text made of its content
ReadFile ==
    /\ file.pc = "start"
    /\ content' = originalContent(file.disk)
    /\ call' = New(content')
    /\ file' = [file EXCEPT !.pc = "callback", !.originalContent = content']
    /\ UNCHANGED shVars

\* file.ts:68  the callback returns and leaves c in f.content
Callback(c) ==
    /\ file.pc = "callback"
    /\ content' = c
    /\ file' = [file EXCEPT !.pc = "save"]
    /\ UNCHANGED <<call, shVars>>

\* file.ts:68  the callback throws, or the promise it returns rejects, and
\* withFile rejects with it
CallbackThrows(c) ==
    /\ file.pc = "callback"
    /\ content' = c
    /\ file' = [file EXCEPT !.pc = "rejected"]
    /\ UNCHANGED <<call, shVars>>

\* file.ts:70-72
Save ==
    /\ file.pc = "save"
    /\ file' = IF content # file.originalContent
                 THEN [file EXCEPT !.pc = "done",
                                   !.disk = Encoded(content, file.eol),
                                   !.written = Append(@, Encoded(content, file.eol))]
                 ELSE [file EXCEPT !.pc = "done"]
    /\ UNCHANGED <<content, call, shVars>>

FileInit ==
    /\ \E rawContent \in RawContents, eol \in EOLs :
          file = [NoFile EXCEPT !.pc = "start", !.disk = rawContent, !.eol = eol]
    /\ content = <<>>
    /\ call = NoCall
    /\ ShInit

FileNext ==
    \/ ReadFile
    \/ \E c \in CallbackContents : Callback(c)
    \/ \E c \in CallbackContents : CallbackThrows(c)
    \/ Save

FileSpec == FileInit /\ [][FileNext]_vars

-----------------------------------------------------------------------------
(* The shell mock state machine *)

Next ==
    \/ Mock
    \/ Restore
    \/ \E s \in 1 .. MaxSize, mock \in MockArgs : Returns(s, mock)
    \/ \E s \in 1 .. MaxSize, command \in CommandPatterns : Command(s, command)
    \/ \E s \in 1 .. MaxSize, c \in 1 .. MaxSize, mock \in MockArgs :
          CmdReturns(s, c, mock)
    \/ \E s \in 1 .. MaxSize : AssertDone(s)
    \/ \E s \in 1 .. MaxSize : Reset(s)
    \* sh(command) with no options; MatchSpec calls sh with every option
    \/ \E command \in Commands : Sh(command, Undefined)

Init ==
    /\ ShInit
    /\ content = <<>>
    /\ call = NoCall
    /\ file = NoFile

Spec == Init /\ [][Next]_vars

\* one mock session with the wider set of commands and patterns
MaxMatchSize == 4

\* there is room for one more controller or result
Room == Size(sessions) < MaxMatchSize

MatchNext ==
    \/ Mock
    \/ \E mock \in MockArgs : Room /\ Returns(1, mock)
    \/ \E command \in MatchPatterns : Room /\ Command(1, command)
    \/ \E c \in 1 .. MaxMatchSize, mock \in MockArgs : Room /\ CmdReturns(1, c, mock)
    \/ \E command \in MatchCommands, trim \in TrimOptions : Sh(command, trim)

MatchSpec == Init /\ [][MatchNext]_vars

-----------------------------------------------------------------------------
(* shell.ts:63-70: sh calls started without awaiting one another *)

\* how many promises of sh calls are in flight at most
MaxInFlight == 2

\* the sequence without its i-th element
Settled(promises, i) ==
    SubSeq(promises, 1, i - 1) \o SubSeq(promises, i + 1, Len(promises))

\* shell.ts:63-70  the call sh(command, {trim}) up to its await: shExec is
\* called at once, and the closure of shell.ts:171-181 has no await of its
\* own, so it shifts its result before sh returns the promise; `last` is what
\* the promise settles to
ShStart(command, trim) ==
    /\ Len(inFlight) < MaxInFlight
    /\ IF shExec = 0
         THEN \E answer \in ExecAnswers : ShLive(command, trim, answer)
         ELSE ShMocked(shExec, command, trim)
    /\ inFlight' = Append(inFlight, last')
    /\ UNCHANGED <<shExec, textVars>>

\* shell.ts:63-70  the caller awaits the i-th of the promises in flight: it
\* settles to what the call computed when it was started
Await(i) ==
    /\ i \in 1 .. Len(inFlight)
    /\ last' = [inFlight[i] EXCEPT !.op = "await"]
    /\ inFlight' = Settled(inFlight, i)
    /\ UNCHANGED <<shExec, sessions, textVars>>

\* how many controllers and results the session of the calls in flight holds
MaxAsyncSize == 3

AsyncRoom == Size(sessions) < MaxAsyncSize

AsyncNext ==
    \/ Mock
    \/ \E mock \in MockArgs : AsyncRoom /\ Returns(1, mock)
    \/ \E command \in CommandPatterns : AsyncRoom /\ Command(1, command)
    \/ \E c \in 1 .. MaxAsyncSize, mock \in MockArgs : AsyncRoom /\ CmdReturns(1, c, mock)
    \/ \E command \in Commands : ShStart(command, Undefined)
    \/ \E i \in 1 .. MaxInFlight : Await(i)

AsyncSpec == Init /\ [][AsyncNext]_vars

-----------------------------------------------------------------------------
(* What the claims about sh.mock speak of *)

\* the step is a call of sh while a mock session is installed
MockedCall == last'.op = "sh" /\ shExec # 0

\* the session whose closure is installed before the step
Cur == sessions[shExec]

\* the same session after the step
CurAfter == sessions'[shExec]

\* the positions in `matchers` of the matchers whose pattern matches the
\* command and whose queue holds a result
Eligible(sess, command) ==
    {k \in 1 .. Len(sess.matchers) :
        /\ Len(sess.ctrls[sess.matchers[k]].mocks) > 0
        /\ Occurs(sess.ctrls[sess.matchers[k]].r, command)}

\* the step took one result from the queue of the c-th command() controller
TookFromCtrl(c) == Len(CurAfter.ctrls[c].mocks) = Len(Cur.ctrls[c].mocks) - 1

\* the step took one result from the default queue
TookFromDefaults == Len(CurAfter.defaults) = Len(Cur.defaults) - 1

\* the call was rejected with the no-mock error
NoMockError ==
    last'.outcome = "rejected" /\ last'.value = NoMockFound(last'.command)

\* every queue of every session is as it was
QueuesUnchanged ==
    \A s \in 1 .. Len(sessions) :
        /\ sessions'[s].defaults = sessions[s].defaults
        /\ \A c \in 1 .. Len(sessions[s].ctrls) :
              sessions'[s].ctrls[c].mocks = sessions[s].ctrls[c].mocks

\* the results at the front of the queues the step shortened by one
Taken ==
    {Cur.defaults[1] : x \in {y \in {1} : TookFromDefaults}}
    \cup {Cur.ctrls[c].mocks[1] : c \in {d \in 1 .. Len(Cur.ctrls) : TookFromCtrl(d)}}

\* how many queues the step shortened by one
TakenCount ==
    Cardinality({y \in {0} : TookFromDefaults}
                \cup {d \in 1 .. Len(Cur.ctrls) : TookFromCtrl(d)})

\* C1: while sh is mocked, a call takes its result from the first matcher, in
\* registration order, whose pattern matches the command and whose queue is
\* not empty, and from the default queue only when there is no such matcher.
C1_FirstMatchingMatcherServes ==
    [][MockedCall =>
        LET el == Eligible(Cur, last'.command) IN
          IF el # {}
            THEN /\ TookFromCtrl(Cur.matchers[Min(el)])
                 /\ ~TookFromDefaults
                 /\ TakenCount = 1
            ELSE \A c \in 1 .. Len(Cur.ctrls) : ~TookFromCtrl(c)]_vars

\* the caller of the step's sh call observed the result m
Delivered(m) ==
    IF m.exitCode # 0
      THEN /\ last'.outcome = "rejected"
           /\ last'.value = CommandFailed(last'.command, m.stderr)
      ELSE /\ last'.outcome = "resolved"
           /\ last'.value \in {m.stdout, Trim(m.stdout)}

\* a queue changes in one step only by a returns() that appends one result at
\* its end, by a sh call that removes its front result and is answered with
\* it, or by a reset() that empties it
QueueStep(q, r) ==
    CASE last'.op = "sh"      -> r = q \/ (q # <<>> /\ r = Tail(q) /\ Delivered(Head(q)))
      [] last'.op = "returns" -> r = q \/ (Len(r) = Len(q) + 1 /\ SubSeq(r, 1, Len(q)) = q)
      [] last'.op = "reset"   -> r = q \/ r = <<>>
      [] OTHER                -> r = q

\* C2: every mock queue is consumed first-in first-out: results enter a queue
\* at its end only and leave it at its front only, each handed to the call
\* that removed it, so the i-th call served from a queue receives the i-th
\* result appended to it, whatever is served from other queues in between.
C2_QueuesAreFifo ==
    [][\A s \in 1 .. Len(sessions) :
          /\ QueueStep(sessions[s].defaults, sessions'[s].defaults)
          /\ Len(sessions'[s].ctrls) >= Len(sessions[s].ctrls)
          /\ \A c \in 1 .. Len(sessions[s].ctrls) :
                QueueStep(sessions[s].ctrls[c].mocks, sessions'[s].ctrls[c].mocks)]_vars

\* a call was served from a matcher queue that still holds a result, while
\* the default queue holds results too
C2_Witness ==
    /\ last.op = "sh" /\ last.via = "mock" /\ last.from > 0
    /\ shExec # 0
    /\ Len(sessions[shExec].ctrls[sessions[shExec].matchers[last.from]].mocks) > 0
    /\ Len(sessions[shExec].defaults) > 0

\* C7: a mocked call fails with the no-mock error exactly when the default
\* queue is empty and no matcher whose pattern matches the command holds a
\* result, and such a call changes no queue.
C7_NoMockExactlyWhenNothingQueued ==
    [][MockedCall =>
        /\ NoMockError <=>
              (Cur.defaults = <<>> /\ Eligible(Cur, last'.command) = {})
        /\ NoMockError => QueuesUnchanged]_vars

\* C8 as stated: a taken result with a non-zero exit code rejects the call
\* with "Command failed: <command>\n<stderr>", a taken result with exit code
\* 0 resolves it with the result's stdout.
C8_ResolvesWithStdout ==
    [][MockedCall =>
        \A m \in Taken :
          IF m.exitCode # 0
            THEN /\ last'.outcome = "rejected"
                 /\ last'.value = CommandFailed(last'.command, m.stderr)
            ELSE /\ last'.outcome = "resolved"
                 /\ last'.value = m.stdout]_vars

\* C8 as amended: a taken result with a non-zero exit code rejects the call
\* with "Command failed: <command>\n<stderr>" and is consumed all the same; a
\* taken result with exit code 0 resolves it with the result's stdout, with
\* the white space at both ends removed unless options.trim is false.
C8_ResolvesWithTrimmedStdout ==
    [][MockedCall =>
        /\ NoMockError \/ TakenCount = 1
        /\ \A m \in Taken :
             IF m.exitCode # 0
               THEN /\ last'.outcome = "rejected"
                    /\ last'.value = CommandFailed(last'.command, m.stderr)
               ELSE /\ last'.outcome = "resolved"
                    /\ last'.value = IF last'.trim = Given(FALSE)
                                       THEN m.stdout ELSE Trim(m.stdout)]_vars

\* a mocked call was rejected because the result taken for it has exit code 1
C8_Witness ==
    /\ last.op = "sh" /\ last.via = "mock" /\ last.from >= 0
    /\ last.outcome = "rejected"
    /\ last.value = CommandFailed(last.command, <<"e">>)

\* C9: sh.mock() called while sh is mocked throws "`sh` is already mocked"
\* and changes nothing: the same session stays installed, with its queues
\* and matchers.
C9_MockTwiceThrows ==
    [][(last'.op = "mock" /\ shExec # 0) =>
          /\ last'.outcome = "threw"
          /\ last'.value = AlreadyMocked
          /\ shExec' = shExec
          /\ sessions' = sessions]_vars

\* sh.mock() threw while the installed session holds results and a matcher
C9_Witness ==
    /\ last.op = "mock" /\ last.outcome = "threw"
    /\ shExec # 0
    /\ Len(sessions[shExec].defaults) > 0
    /\ Len(sessions[shExec].matchers) > 0

\* C10: sh.restore() can be called in every mode and leaves sh live: calls
\* go to the real executor and change no queue. A later sh.mock() succeeds and
\* installs a session with an empty default queue and no matchers; what the
\* earlier sessions hold stays with them, a call to a controller changes the
\* session of that controller only, and sh reads the installed session only.
C10_RestoreThenFreshSession ==
    [][/\ ENABLED Restore
       /\ last'.op = "restore" => (shExec' = 0 /\ last'.outcome = "returned")
       /\ (last'.op = "sh" /\ shExec = 0) =>
             (last'.via = "exec" /\ sessions' = sessions)
       /\ (last'.op = "mock" /\ shExec = 0) =>
             /\ last'.outcome = "returned"
             /\ shExec' = Len(sessions') /\ shExec' = Len(sessions) + 1
             /\ sessions'[shExec'].defaults = <<>>
             /\ sessions'[shExec'].matchers = <<>>
             /\ sessions'[shExec'].ctrls = <<>>
             /\ \A s \in 1 .. Len(sessions) : sessions'[s] = sessions[s]
       /\ MockedCall =>
             /\ last'.via = "mock"
             /\ \A s \in 1 .. Len(sessions) : s # shExec => sessions'[s] = sessions[s]
       /\ last'.op \in {"returns", "command", "reset"} =>
             Cardinality({s \in 1 .. Len(sessions) : sessions'[s] # sessions[s]}) <= 1]_vars

\* after restore() and a second sh.mock(), a call found no mock although the
\* first session still holds results
C10_Witness ==
    /\ Len(sessions) = 2 /\ shExec = 2
    /\ Unconsumed(sessions[1])
    /\ last.op = "sh" /\ last.via = "mock"
    /\ last.value = NoMockFound(last.command)

\* the default queue and the queue of every registered matcher are empty
AllQueuesEmpty(sess) ==
    /\ sess.defaults = <<>>
    /\ \A k \in 1 .. Len(sess.matchers) : sess.ctrls[sess.matchers[k]].mocks = <<>>

\* C11: assertDone() returns if and only if the default queue and every
\* matcher queue are empty, throws otherwise, and changes no queue and not
\* the mode.
C11_AssertDonePassesIffAllEmpty ==
    [][\A s \in 1 .. Len(sessions) :
          (last'.op = "assertDone" /\ AssertDone(s)) =>
            /\ last'.outcome = "returned" <=> AllQueuesEmpty(sessions[s])
            /\ last'.outcome = "threw" <=> ~AllQueuesEmpty(sessions[s])
            /\ last'.outcome = "threw" => last'.value = NotUsed
            /\ sessions' = sessions
            /\ shExec' = shExec]_vars

\* assertDone() threw although the default queue is empty: a matcher queue
\* holds a result
C11_Witness ==
    /\ last.op = "assertDone" /\ last.outcome = "threw"
    /\ Len(sessions) = 1
    /\ sessions[1].defaults = <<>>
    /\ ~AllQueuesEmpty(sessions[1])

\* C12: reset() empties the default queue and removes every matcher of its
\* session and leaves the mode as it is, so that assertDone() passes; a
\* session without matchers rejects a call with the no-mock error when its
\* default queue is empty, and otherwise serves the front of the default
\* queue, whatever the command and whatever was registered before the reset.
C12_ResetClearsSession ==
    [][/\ \A s \in 1 .. Len(sessions) :
            Reset(s) =>
              /\ shExec' = shExec
              /\ sessions'[s].defaults = <<>>
              /\ sessions'[s].matchers = <<>>
              /\ AllQueuesEmpty(sessions'[s])
              /\ \A o \in 1 .. Len(sessions) : o # s => sessions'[o] = sessions[o]
       /\ (MockedCall /\ Cur.matchers = <<>>) =>
            IF Cur.defaults = <<>>
              THEN NoMockError /\ QueuesUnchanged
              ELSE /\ TookFromDefaults
                   /\ Delivered(Head(Cur.defaults))
                   /\ \A c \in 1 .. Len(Cur.ctrls) : ~TookFromCtrl(c)]_vars

\* after a reset(), a call was served from the default queue although a
\* matcher registered before the reset matches the command and holds a result
C12_Witness ==
    /\ last.op = "sh" /\ last.via = "mock" /\ last.outcome = "resolved" /\ last.from = 0
    /\ shExec # 0
    /\ sessions[shExec].matchers = <<>>
    /\ \E c \in 1 .. Len(sessions[shExec].ctrls) :
          /\ sessions[shExec].ctrls[c].mocks # <<>>
          /\ Occurs(sessions[shExec].ctrls[c].r, last.command)

\* queue c of session s: the default queue (c = 0) or the queue of the c-th
\* command() call
Queue(ss, s, c) == IF c = 0 THEN ss[s].defaults ELSE ss[s].ctrls[c].mocks

\* C13: a mocked call that does not fail with the no-mock error removes the
\* front result of exactly one queue of the installed session and leaves the
\* rest of that queue and every other queue as they were.
C13_CallTakesOneFrontResult ==
    [][(MockedCall /\ ~NoMockError) =>
          /\ \A s \in 1 .. Len(sessions) :
                /\ Len(sessions'[s].ctrls) = Len(sessions[s].ctrls)
                /\ sessions'[s].matchers = sessions[s].matchers
          /\ \E which \in 0 .. Len(Cur.ctrls) :
                \A s \in 1 .. Len(sessions) : \A c \in 0 .. Len(sessions[s].ctrls) :
                    IF s = shExec /\ c = which
                      THEN /\ Queue(sessions, s, c) # <<>>
                           /\ Queue(sessions', s, c) = Tail(Queue(sessions, s, c))
                      ELSE Queue(sessions', s, c) = Queue(sessions, s, c)]_vars

\* a call was rejected with the result of exit code 1 taken from the default
\* queue, while the default queue and a matcher queue still hold results
C13_Witness ==
    /\ last.op = "sh" /\ last.via = "mock" /\ last.from = 0
    /\ last.outcome = "rejected"
    /\ last.value = CommandFailed(last.command, <<"e">>)
    /\ shExec # 0
    /\ sessions[shExec].defaults # <<>>
    /\ \E c \in 1 .. Len(sessions[shExec].ctrls) : sessions[shExec].ctrls[c].mocks # <<>>

\* C14: every command() call registers a new matcher with an empty queue of
\* its own, at the end of the matchers, also for a pattern registered before;
\* returns() on one command controller changes the queue of no other; and of
\* two matchers registered with the same string, the one registered later
\* serves a call only when the queue of the earlier one is empty.
C14_CommandRegistersOwnQueue ==
    [][/\ \A s \in 1 .. Len(sessions) : \A p \in CommandPatterns :
            (last'.op = "command" /\ Command(s, p)) =>
              LET n == Len(sessions[s].ctrls) IN
              /\ Len(sessions'[s].ctrls) = n + 1
              /\ sessions'[s].ctrls[n + 1].mocks = <<>>
              /\ sessions'[s].matchers = Append(sessions[s].matchers, n + 1)
              /\ \A c \in 1 .. n : sessions'[s].ctrls[c] = sessions[s].ctrls[c]
              /\ sessions'[s].defaults = sessions[s].defaults
       /\ \A s \in 1 .. Len(sessions) : \A c \in 1 .. Len(sessions[s].ctrls) :
            \A mock \in MockArgs :
              (/\ last'.op = "returns"
               /\ sessions'[s].ctrls[c].mocks # sessions[s].ctrls[c].mocks
               /\ CmdReturns(s, c, mock)) =>
                /\ Len(sessions'[s].ctrls[c].mocks) = Len(sessions[s].ctrls[c].mocks) + 1
                /\ \A d \in 1 .. Len(sessions[s].ctrls) :
                      d # c => sessions'[s].ctrls[d].mocks = sessions[s].ctrls[d].mocks
       /\ MockedCall =>
            \A k \in 1 .. Len(Cur.matchers) : \A j \in 1 .. k - 1 :
              (/\ TookFromCtrl(Cur.matchers[k])
               /\ Cur.ctrls[Cur.matchers[j]].r = Cur.ctrls[Cur.matchers[k]].r
               /\ Cur.ctrls[Cur.matchers[k]].r.flags = {})
              => Cur.ctrls[Cur.matchers[j]].mocks = <<>>]_vars

\* after two command('a') calls, a call of 'a' was served by the matcher
\* registered second, the queue of the first being empty
C14_Witness ==
    /\ last.op = "sh" /\ last.via = "mock" /\ last.outcome = "resolved" /\ last.from = 2
    /\ last.command = <<"a">>
    /\ shExec # 0
    /\ Len(sessions[shExec].matchers) = 2
    /\ sessions[shExec].ctrls[sessions[shExec].matchers[1]].r = RegExp(<<"^", "a", "$">>, {})
    /\ sessions[shExec].ctrls[sessions[shExec].matchers[2]].r = RegExp(<<"^", "a", "$">>, {})
    /\ sessions[shExec].ctrls[sessions[shExec].matchers[1]].mocks = <<>>

\* no registered matcher has a pattern that matches the command
NoMatcherMatches(sess, command) ==
    \A k \in 1 .. Len(sess.matchers) : ~Occurs(sess.ctrls[sess.matchers[k]].r, command)

\* C15: a matcher registered with a string matches exactly the command
\* equal to that string, and a matcher registered with a RegExp holds that
\* RegExp as given; a matcher registered with '.' or 'a' serves only the
\* command '.' or 'a'; and a command that no matcher matches is served from
\* the default queue, also when matcher queues hold results.
C15_StringMatchesExactly ==
    [][/\ \A p \in MatchPatterns :
            Command(1, p) =>
              LET r == sessions'[1].ctrls[Len(sessions'[1].ctrls)].r IN
              IF IsString(p)
                THEN \A command \in MatchCommands : Occurs(r, command) <=> command = p.value
                ELSE r = p
       /\ MockedCall =>
            /\ \A c \in 1 .. Len(Cur.ctrls) :
                  TookFromCtrl(c) =>
                    /\ Cur.ctrls[c].r = RegExp(<<"^", "\\", ".", "$">>, {})
                          => last'.command = <<".">>
                    /\ Cur.ctrls[c].r = RegExp(<<"^", "a", "$">>, {})
                          => last'.command = <<"a">>
            /\ NoMatcherMatches(Cur, last'.command) =>
                  IF Cur.defaults = <<>>
                    THEN NoMockError
                    ELSE /\ TookFromDefaults
                         /\ Delivered(Head(Cur.defaults))
                         /\ \A c \in 1 .. Len(Cur.ctrls) : ~TookFromCtrl(c)]_vars

\* the command 'a' was served from the default queue while the matchers,
\* one of them registered with the string '.', hold results
C15_Witness ==
    /\ last.op = "sh" /\ last.via = "mock" /\ last.outcome = "resolved" /\ last.from = 0
    /\ last.command = <<"a">>
    /\ shExec # 0
    /\ NoMatcherMatches(sessions[shExec], last.command)
    /\ \E k \in 1 .. Len(sessions[shExec].matchers) :
          /\ sessions[shExec].ctrls[sessions[shExec].matchers[k]].r
                = RegExp(<<"^", "\\", ".", "$">>, {})
          /\ sessions[shExec].ctrls[sessions[shExec].matchers[k]].mocks # <<>>

\* the result a returns(mock) call queues: 0, '' and '' for the fields that
\* mock leaves out
Defaulted(mock) ==
    [exitCode |-> IF mock.exitCode = {} THEN 0 ELSE CHOOSE v \in mock.exitCode : TRUE,
     stdout   |-> IF mock.stdout = {} THEN <<>> ELSE CHOOSE v \in mock.stdout : TRUE,
     stderr   |-> IF mock.stderr = {} THEN <<>> ELSE CHOOSE v \in mock.stderr : TRUE]

\* C16: returns(mock) appends exactly one result at the end of its queue, the
\* default queue for the controller of sh.mock() and the queue of its
\* command for a command controller, with exit code 0, stdout '' and stderr
\* '' for the fields left out, and changes nothing else.
C16_ReturnsAppendsOneResult ==
    [][\A s \in 1 .. Len(sessions) : \A mock \in MockArgs :
          /\ (/\ last'.op = "returns"
              /\ sessions'[s].defaults # sessions[s].defaults
              /\ Returns(s, mock)) =>
                /\ sessions' = [sessions EXCEPT
                                  ![s].defaults = Append(@, Defaulted(mock))]
                /\ shExec' = shExec
          /\ \A c \in 1 .. Len(sessions[s].ctrls) :
                (/\ last'.op = "returns"
                 /\ sessions'[s].ctrls[c].mocks # sessions[s].ctrls[c].mocks
                 /\ CmdReturns(s, c, mock)) =>
                  /\ sessions' = [sessions EXCEPT
                                    ![s].ctrls[c].mocks = Append(@, Defaulted(mock))]
                  /\ shExec' = shExec]_vars

\* returns({exitCode: 1, stderr: 'e'}) was called on a default queue that
\* held another result: the new result is last, with stdout ''
C16_Witness ==
    /\ last.op = "returns"
    /\ \E s \in 1 .. Len(sessions) :
          /\ Len(sessions[s].defaults) >= 2
          /\ sessions[s].defaults[Len(sessions[s].defaults)]
                = [exitCode |-> 1, stdout |-> <<>>, stderr |-> <<"e">>]
          /\ sessions[s].defaults[1] = [exitCode |-> 0, stdout |-> <<" ", "y">>, stderr |-> <<>>]

-----------------------------------------------------------------------------
(* What the claims about Text speak of *)

\* the lines of the document before the call
Before == lines(call.before)

\* the call is deleteEveryBlock with a block that is not empty
EveryBlockCall == call.op = "deleteEveryBlock" /\ call.block # <<>>

\* the locator of the call holds the key `key` and no other key
OnlyKey(key) ==
    /\ ~IsUndefined(call.where[key])
    /\ call.where = [NoKeys EXCEPT ![key] = call.where[key]]

\* C3: in deleteEveryBlock, a line that fails the next expected pattern of a
\* partial match but matches block[0] starts a new candidate run, so a run
\* completed from there is deleted starting at that line; the document with
\* the lines a, b, ab and an empty last line, and the block ['', 'ab'],
\* becomes a and an empty last line.
C3_RepeatedFirstLineRestartsRun ==
    EveryBlockCall =>
        LET ps == Patterns(call.block)
            rows == Scan(Before, ps, Len(Before)).rows
        IN /\ \A n \in 1 .. Len(Before) :
                LET st == Scan(Before, ps, n - 1) IN
                  (/\ st.matches > 0
                   /\ ~Matches(Before[n], ps[st.matches + 1])
                   /\ Matches(Before[n], ps[1]))
                  => Scan(Before, ps, n).matchRow = n - 1
           /\ \A i \in 1 .. Len(rows) : BlockAt(Before, ps, rows[i])
           /\ (/\ Before = <<(<<"a">>), (<<"b">>), (<<"a", "b">>), (<<>>)>>
               /\ call.block = <<Str(<<>>), Str(<<"a", "b">>)>>)
              => content = <<"a", NL>>

RECURSIVE ReferenceScan(_, _, _)
\* the lines left by the scan that, from 0-based index i on, drops the lines
\* [i, i + len) and goes on at i + len when they match the patterns one for
\* one, and keeps line i and goes on at i + 1 otherwise
ReferenceScan(ls, ps, i) ==
    IF i >= Len(ls) THEN <<>>
    ELSE IF BlockAt(ls, ps, i) THEN ReferenceScan(ls, ps, i + Len(ps))
    ELSE <<ls[i + 1]>> \o ReferenceScan(ls, ps, i + 1)

\* C4: deleteEveryBlock with a block that is not empty leaves what the
\* reference scan leaves, and the run deleteBlock would find is among the
\* runs it removes.
C4_EveryBlockIsReferenceScan ==
    EveryBlockCall =>
        LET ps == Patterns(call.block)
            rows == Scan(Before, ps, Len(Before)).rows
        IN /\ content = Join(ReferenceScan(Before, ps, 0))
           /\ \A i \in 0 .. Len(Before) - 1 :
                (BlockAt(Before, ps, i) /\ \A j \in 0 .. i - 1 : ~BlockAt(Before, ps, j))
                => \E k \in 1 .. Len(rows) : rows[k] = i

\* C5: insertLine(L, {at: k}) on n lines keeps the n lines in order and puts
\* L at index min(k, n) when k >= 0 and at index max(n + 1 + k, 0) when k < 0.
C5_InsertAtIndex ==
    (call.op = "insertLine" /\ OnlyKey("at")) =>
        LET n == Len(Before)
            k == ValueOf(call.where.at)
            index == IF k >= 0 THEN Min({k, n}) ELSE Max({n + 1 + k, 0})
        IN /\ ~call.threw
           /\ lines(content) =
                SubSeq(Before, 1, index) \o <<call.line>> \o SubSeq(Before, index + 1, n)

RECURSIVE WithLineAtEvery(_, _, _, _)
\* the lines ls with one copy of line before (above) or after every line
\* that matches p
WithLineAtEvery(ls, p, line, above) ==
    IF ls = <<>> THEN <<>>
    ELSE (IF ~Matches(Head(ls), regex(p)) THEN <<Head(ls)>>
          ELSE IF above THEN <<line, Head(ls)>> ELSE <<Head(ls), line>>)
         \o WithLineAtEvery(Tail(ls), p, line, above)

\* C6: insertLine(L, {aboveEvery: p}) / insertLine(L, {belowEvery: p}) puts
\* one copy of L right before / right after every line that matched p before
\* the call, keeps the lines in order, and changes nothing and throws nothing
\* when no line matches.
C6_InsertAtEveryMatch ==
    /\ (call.op = "insertLine" /\ OnlyKey("aboveEvery")) =>
          /\ ~call.threw
          /\ lines(content) =
                WithLineAtEvery(Before, ValueOf(call.where.aboveEvery), call.line, TRUE)
    /\ (call.op = "insertLine" /\ OnlyKey("belowEvery")) =>
          /\ ~call.threw
          /\ lines(content) =
                WithLineAtEvery(Before, ValueOf(call.where.belowEvery), call.line, FALSE)
    /\ (/\ call.op = "insertLine"
        /\ OnlyKey("aboveEvery") \/ OnlyKey("belowEvery")
        /\ \A i \in 1 .. Len(Before) :
              ~Matches(Before[i], regex(ValueOf(IF OnlyKey("aboveEvery")
                                                  THEN call.where.aboveEvery
                                                  ELSE call.where.belowEvery))))
       => (~call.threw /\ content = call.before)

\* the keys the locator of the call supplies
SuppliedKeys ==
    {i \in 1 .. Len(LocatorKeys) : ~IsUndefined(call.where[LocatorKeys[i]])}

\* no line of the document before the call matches p
NoLineMatches(p) == \A i \in 1 .. Len(Before) : ~Matches(Before[i], regex(p))

\* the 0-based index of the first line before the call that matches p
FirstMatch(p) == Min({i \in 0 .. Len(Before) - 1 : Matches(Before[i + 1], regex(p))})

\* the lines before the call with the line of the call put in at index i
WithLineAt(i) ==
    SubSeq(Before, 1, i) \o <<call.line>> \o SubSeq(Before, i + 1, Len(Before))

\* C17: insertLine(L, {above: p}) / insertLine(L, {below: p}) puts L right
\* before / right after the first line in which p occurs and nowhere else:
\* the document grows by that one line.
C17_InsertAtFirstMatch ==
    /\ (/\ call.op = "insertLine" /\ OnlyKey("above")
        /\ ~NoLineMatches(ValueOf(call.where.above)))
       => /\ ~call.threw
          /\ lines(content) = WithLineAt(FirstMatch(ValueOf(call.where.above)))
    /\ (/\ call.op = "insertLine" /\ OnlyKey("below")
        /\ ~NoLineMatches(ValueOf(call.where.below)))
       => /\ ~call.threw
          /\ lines(content) = WithLineAt(FirstMatch(ValueOf(call.where.below)) + 1)

\* the call threw the no-line error for the pattern p and left the content
ThrewNoLine(p) ==
    /\ call.threw
    /\ call.message = <<"No line found matching ">> \o RegExpToString(regex(p))
    /\ content = call.before

RECURSIVE PatternTexts(_)
\* the textual forms of the patterns of a block, one per line
PatternTexts(block) ==
    IF Len(block) = 1 THEN RegExpToString(regex(block[1]))
    ELSE RegExpToString(regex(block[1])) \o <<NL>> \o PatternTexts(Tail(block))

\* C18: without a match, insertLine with above/below and deleteLine throw
\* "No line found matching <pattern>", and deleteBlock throws "No block
\* found matching" followed by every pattern of the block, also when the
\* block is longer than the document; the content stays as it was.
C18_NoMatchThrows ==
    /\ (call.op = "insertLine" /\ OnlyKey("above")
          /\ NoLineMatches(ValueOf(call.where.above)))
       => ThrewNoLine(ValueOf(call.where.above))
    /\ (call.op = "insertLine" /\ OnlyKey("below")
          /\ NoLineMatches(ValueOf(call.where.below)))
       => ThrewNoLine(ValueOf(call.where.below))
    /\ (call.op = "deleteLine" /\ NoLineMatches(call.block[1]))
       => ThrewNoLine(call.block[1])
    /\ (/\ call.op = "deleteBlock" /\ call.block # <<>>
        /\ \A i \in 0 .. Len(Before) - 1 : ~BlockAt(Before, Patterns(call.block), i))
       => /\ call.threw
          /\ call.message = <<"No block found matching", NL, NL>> \o PatternTexts(call.block)
          /\ content = call.before
    /\ (call.op = "deleteBlock" /\ Len(call.block) > Len(Before)) => call.threw

\* deleteBlock threw for a block of two patterns on a document of one line
C18_Witness ==
    /\ call.op = "deleteBlock" /\ call.threw
    /\ Len(call.block) = 2 /\ Len(Before) = 1
    /\ call.block[1] # call.block[2]

\* C19: insertLine throws "Please specify only one of these keys: ..." and
\* leaves the content as it was whenever the locator supplies two or more of
\* the five keys, whatever their values.
C19_TwoKeysThrow ==
    (call.op = "insertLine" /\ Cardinality(SuppliedKeys) >= 2) =>
        /\ call.threw
        /\ call.message[1] = "Please specify only one of these keys: "
        /\ content = call.before

\* C20: insertLine throws "Please specify one of these keys: ..." if and
\* only if the locator supplies none of the five keys; a locator with
\* exactly one key is taken as that locator whatever the value.
C20_MissingLocatorIffNoKey ==
    call.op = "insertLine" =>
        ((call.threw /\ call.message[1] = "Please specify one of these keys: ")
            <=> SuppliedKeys = {})

\* the call is insertLines with an array that is not empty
InsertLinesCall == call.op = "insertLines" /\ call.block # <<>>

RECURSIVE WithBlockAtEvery(_, _, _, _)
\* the lines ls with the lines of block, in their order and next to one
\* another, before (above) or after every line that matches p
WithBlockAtEvery(ls, p, block, above) ==
    IF ls = <<>> THEN <<>>
    ELSE (IF ~Matches(Head(ls), regex(p)) THEN <<Head(ls)>>
          ELSE IF above THEN block \o <<Head(ls)>> ELSE <<Head(ls)>> \o block)
         \o WithBlockAtEvery(Tail(ls), p, block, above)

\* C21: insertLines(lines, locator) with an array that is not empty does what
\* insertLine(lines.join('\n'), locator) does (the same content, the same
\* error): the given lines stand in their order and next to one another at
\* the one place an at, above or below locator selects, and before / after
\* every matching line with aboveEvery / belowEvery.
C21_InsertLinesIsInsertLineOfJoin ==
    InsertLinesCall =>
        LET joined == insertLine(call.before, Join(call.block), call.where)
            n == Len(Before)
        IN /\ call.threw = joined.threw
           /\ call.message = joined.message
           /\ content = (IF joined.threw THEN call.before ELSE joined.content)
           /\ (~call.threw /\ OnlyKey("aboveEvery")) =>
                lines(content) =
                    WithBlockAtEvery(Before, ValueOf(call.where.aboveEvery), call.block, TRUE)
           /\ (~call.threw /\ OnlyKey("belowEvery")) =>
                lines(content) =
                    WithBlockAtEvery(Before, ValueOf(call.where.belowEvery), call.block, FALSE)
           /\ (~call.threw /\ (OnlyKey("at") \/ OnlyKey("above") \/ OnlyKey("below"))) =>
                \E i \in 0 .. n :
                    lines(content) = SubSeq(Before, 1, i) \o call.block \o SubSeq(Before, i + 1, n)

\* insertLines put two lines below each of two or more matching lines
C21_Witness ==
    /\ InsertLinesCall /\ ~call.threw
    /\ Len(call.block) = 2
    /\ OnlyKey("belowEvery")
    /\ Cardinality({i \in 1 .. Len(Before) :
            Matches(Before[i], regex(ValueOf(call.where.belowEvery)))}) >= 2
    /\ Len(lines(content)) >= Len(Before) + 4

\* C22: deleteLine(p) removes the first line in which p occurs, a part of the
\* line being enough, and leaves every other line, later matching lines
\* among them, in place and in order.
C22_DeleteLineRemovesFirstMatch ==
    (call.op = "deleteLine" /\ ~NoLineMatches(call.block[1])) =>
        LET i == FirstMatch(call.block[1])
        IN /\ ~call.threw
           /\ content = Join(SubSeq(Before, 1, i) \o SubSeq(Before, i + 2, Len(Before)))

\* deleteLine('a') or deleteLine('b') removed the line ab, and a later line
\* that matches stayed
C22_Witness ==
    /\ call.op = "deleteLine" /\ ~call.threw
    /\ IsString(call.block[1])
    /\ LET i == FirstMatch(call.block[1])
       IN /\ Before[i + 1] = <<"a", "b">>
          /\ \E j \in i + 2 .. Len(Before) : Matches(Before[j], regex(call.block[1]))
          /\ Len(lines(content)) = Len(Before) - 1

RECURSIVE Unmatched(_, _)
\* the lines of ls that do not match p, in their order
Unmatched(ls, p) ==
    IF ls = <<>> THEN <<>>
    ELSE (IF Matches(Head(ls), regex(p)) THEN <<>> ELSE <<Head(ls)>>)
         \o Unmatched(Tail(ls), p)

\* C23: after deleteEveryLine(p) the document is made of the lines that did
\* not match p, in their order, also when matching lines were next to one
\* another; when no line matches the call throws nothing and changes
\* nothing.
C23_DeleteEveryLineKeepsTheOthers ==
    call.op = "deleteEveryLine" =>
        /\ ~call.threw
        /\ content = Join(Unmatched(Before, call.block[1]))
        /\ NoLineMatches(call.block[1]) => content = call.before

\* deleteEveryLine removed two matching lines that were next to one another
\* and kept a line
C23_Witness ==
    /\ call.op = "deleteEveryLine"
    /\ \E i \in 1 .. Len(Before) - 1 :
          /\ Matches(Before[i], regex(call.block[1]))
          /\ Matches(Before[i + 1], regex(call.block[1]))
    /\ \E j \in 1 .. Len(Before) :
          /\ ~Matches(Before[j], regex(call.block[1]))
          /\ Before[j] # <<>>
    /\ Len(lines(content)) <= Len(Before) - 2

\* C24: deleteBlock(block) with a block that is not empty removes the
\* block.length lines from the smallest index where the lines match the
\* block one for one, and nothing else; with an empty block it throws
\* nothing and changes nothing.
C24_DeleteBlockRemovesFirstRun ==
    /\ (/\ call.op = "deleteBlock" /\ call.block # <<>>
        /\ \E i \in 0 .. Len(Before) - 1 : BlockAt(Before, Patterns(call.block), i))
       => LET i == Min({k \in 0 .. Len(Before) - 1 :
                            BlockAt(Before, Patterns(call.block), k)})
          IN /\ ~call.threw
             /\ content = Join(SubSeq(Before, 1, i)
                                \o SubSeq(Before, i + Len(call.block) + 1, Len(Before)))
    /\ (call.op = "deleteBlock" /\ call.block = <<>>)
       => (~call.threw /\ content = call.before)

\* deleteBlock removed the first of two runs of two lines
C24_Witness ==
    /\ call.op = "deleteBlock" /\ ~call.threw
    /\ Len(call.block) = 2
    /\ \E i, j \in 0 .. Len(Before) - 1 :
          /\ i + 2 <= j
          /\ BlockAt(Before, Patterns(call.block), i)
          /\ BlockAt(Before, Patterns(call.block), j)
    /\ Len(lines(content)) = Len(Before) - 2


RECURSIVE WithoutRuns(_, _, _, _)
\* the lines of ls from 0-based index i on that are in none of the runs of
\* len lines that start at the indices in starts
WithoutRuns(ls, starts, len, i) ==
    IF i >= Len(ls) THEN <<>>
    ELSE (IF \E s \in starts : s <= i /\ i < s + len THEN <<>> ELSE <<ls[i + 1]>>)
         \o WithoutRuns(ls, starts, len, i + 1)

\* C25: what deleteEveryBlock removes is a set of runs of block.length lines
\* that match the block one for one and share no line; every line outside
\* these runs is retained, so (number of runs) x block.length lines go; the
\* document a, a, a, b with the block ['a', 'a'] becomes a, b.
C25_RemovedRunsAreDisjointRuns ==
    EveryBlockCall =>
        LET ps == Patterns(call.block)
            len == Len(call.block)
        IN /\ ~call.threw
           /\ \E starts \in SUBSET (0 .. Len(Before) - 1) :
                /\ \A s \in starts : BlockAt(Before, ps, s)
                /\ \A s, t \in starts : s < t => s + len <= t
                /\ content = Join(WithoutRuns(Before, starts, len, 0))
                /\ Len(WithoutRuns(Before, starts, len, 0))
                      = Len(Before) - Cardinality(starts) * len
           /\ (/\ Before = <<(<<"a">>), (<<"a">>), (<<"a">>), (<<"b">>)>>
               /\ call.block = <<Str(<<"a">>), Str(<<"a">>)>>)
              => content = <<"a", NL, "b">>


RECURSIVE EveryOccurrence(_, _, _, _)
\* the text s from offset pos on with put in the place of every occurrence
\* of the characters of search, the occurrences found from left to right and
\* each begun where the one before it ended; the empty search occurs once
\* before every character and once at the end
EveryOccurrence(s, search, put, pos) ==
    IF search = <<>>
      THEN put \o (IF pos < Len(s)
                     THEN <<s[pos + 1]>> \o EveryOccurrence(s, search, put, pos + 1)
                     ELSE <<>>)
    ELSE IF pos + Len(search) <= Len(s) /\ SubSeq(s, pos + 1, pos + Len(search)) = search
      THEN put \o EveryOccurrence(s, search, put, pos + Len(search))
    ELSE IF pos < Len(s)
      THEN <<s[pos + 1]>> \o EveryOccurrence(s, search, put, pos + 1)
    ELSE <<>>

RECURSIVE EveryCharacter(_, _)
\* the text s with what the replacement stands for in the place of every
\* character that is no line break
EveryCharacter(s, replaceValue) ==
    IF s = <<>> THEN <<>>
    ELSE (IF Head(s) = NL THEN <<NL>> ELSE Substitution(replaceValue, <<Head(s)>>))
         \o EveryCharacter(Tail(s), replaceValue)

\* C26: replaceAll(search, replacement) replaces every occurrence of search
\* in the whole content, found from left to right without overlap: a string
\* is searched for character by character ('.' is the full stop only), a
\* RegExp without the global flag gives what the same RegExp with the flag
\* gives, and what a replacement put in is not searched again.
C26_ReplaceAllReplacesEveryOccurrence ==
    call.op = "replaceAll" =>
        LET search == call.block[1]
            s == call.before
        IN /\ ~call.threw
           /\ IsString(search) =>
                content = EveryOccurrence(s, search.value,
                                          Substitution(call.line, search.value), 0)
           /\ ~IsString(search) =>
                content = Replace(s, RegExp(search.source, search.flags \cup {"g"}), call.line)
           /\ (~IsString(search) /\ search.source = <<"a">>) =>
                content = EveryOccurrence(s, <<"a">>, Substitution(call.line, <<"a">>), 0)
           /\ (~IsString(search) /\ search.source = <<".">>) =>
                content = EveryCharacter(s, call.line)
           /\ (~IsString(search) /\ search.source = <<"b", "$">>) =>
                content = (IF s # <<>> /\ s[Len(s)] = "b"
                             THEN SubSeq(s, 1, Len(s) - 1) \o Substitution(call.line, <<"b">>)
                             ELSE s)

\* replaceAll(/a/, 'aa') on a document with a on two lines or more: every a
\* became aa and no more
C26_Witness ==
    /\ call.op = "replaceAll"
    /\ call.block[1] = RegExp(<<"a">>, {})
    /\ call.line = <<"a", "a">>
    /\ Cardinality({i \in 1 .. Len(Before) : Matches(Before[i], regex(Str(<<"a">>)))}) >= 2
    /\ Len(content) = Len(call.before)
          + Cardinality({i \in 1 .. Len(call.before) : call.before[i] = "a"})

\* the call is one that looks for lines, runs or occurrences, and found none
FoundNothing ==
    \/ /\ call.op \in {"insertLine", "insertLines"}
       /\ \/ OnlyKey("aboveEvery") /\ NoLineMatches(ValueOf(call.where.aboveEvery))
          \/ OnlyKey("belowEvery") /\ NoLineMatches(ValueOf(call.where.belowEvery))
    \/ call.op = "deleteEveryLine" /\ NoLineMatches(call.block[1])
    \/ /\ EveryBlockCall
       /\ \A i \in 0 .. Len(Before) - 1 : ~BlockAt(Before, Patterns(call.block), i)
    \/ call.op = "replaceAll" /\ ~Occurs(regex(call.block[1]), call.before)

\* C27: whatever calls were made on the Text, lines() joined with '\n' is the
\* content, a line break at the end of the content gives an empty last line
\* (lines() has one element more than the content has line breaks), and a
\* call that found nothing and did not throw left the content as it was.
C27_LinesJoinBackToContent ==
    /\ Join(lines(content)) = content
    /\ Len(lines(content)) = Cardinality({i \in 1 .. Len(content) : content[i] = NL}) + 1
    /\ (content # <<>> /\ content[Len(content)] = NL)
          => lines(content)[Len(lines(content))] = <<>>
    /\ (content = <<"a", NL>>) => lines(content) = <<(<<"a">>), (<<>>)>>
    /\ (FoundNothing /\ ~call.threw) => content = call.before

\* deleteEveryLine found nothing in a document that ends with a line break
C27_Witness ==
    /\ call.op = "deleteEveryLine" /\ FoundNothing /\ ~call.threw
    /\ Len(content) >= 2 /\ content[Len(content)] = NL
    /\ lines(content)[Len(lines(content))] = <<>>

\* C28: insertLines([], locator) throws nothing and leaves the content as it
\* was for every locator that supplies one key.
C28_InsertNoLinesChangesNothing ==
    (call.op = "insertLines" /\ call.block = <<>> /\ Cardinality(SuppliedKeys) = 1)
        => (~call.threw /\ content = call.before)

\* insertLines([], {aboveEvery: p}) on a document with a line that matches p
C28_Witness ==
    /\ call.op = "insertLines" /\ call.block = <<>>
    /\ OnlyKey("aboveEvery") /\ ~NoLineMatches(ValueOf(call.where.aboveEvery))
    /\ ~call.threw /\ content = call.before

-----------------------------------------------------------------------------
(* What sh returns *)

\* v is s without the white space at its two ends
IsTrimOf(v, s) ==
    /\ v # <<>> => (~IsSpace(v[1]) /\ ~IsSpace(v[Len(v)]))
    /\ \E i \in 0 .. Len(s) :
          /\ i + Len(v) <= Len(s)
          /\ SubSeq(s, i + 1, i + Len(v)) = v
          /\ \A k \in (1 .. i) \cup (i + Len(v) + 1 .. Len(s)) : IsSpace(s[k])

\* the stdout of the executor's answers with exit code 0 for the call of
\* the step: what the operating system may answer while sh is not mocked,
\* the result taken from a queue while it is
ExecutorStdouts ==
    IF shExec = 0
      THEN {answer.stdout : answer \in {a \in ExecAnswers : a.exitCode = 0}}
      ELSE {m.stdout : m \in {t \in Taken : t.exitCode = 0}}

\* C29: a call of sh that resolves returns the executor's stdout without the
\* white space at its two ends, and the stdout as it is when options.trim is
\* false, while sh is mocked as while it is not.
C29_TrimsUnlessTrimIsFalse ==
    [][(last'.op = "sh" /\ last'.outcome = "resolved") =>
        \E stdout \in ExecutorStdouts :
            IF last'.trim = Given(FALSE)
              THEN last'.value = stdout
              ELSE IsTrimOf(last'.value, stdout)]_vars

\* the real executor answered r and a line break, and sh returned r
C29_Witness ==
    /\ last.op = "sh" /\ last.via = "exec" /\ last.outcome = "resolved"
    /\ last.trim = Undefined
    /\ last.value = <<"r">>

-----------------------------------------------------------------------------
(* What the claims about appendLine and appendLines speak of *)

\* how many line breaks the text has
Breaks(s) == Cardinality({i \in 1 .. Len(s) : s[i] = NL})

\* the text ends with a line break
EndsWithBreak(s) == s # <<>> /\ s[Len(s)] = NL

\* the text after appendLine(line) as C30 describes it
Appended(c, line) ==
    (IF c # <<>> /\ ~EndsWithBreak(c) THEN c \o <<NL>> ELSE c) \o line \o <<NL>>

RECURSIVE AppendedEach(_, _)
\* the text after one appendLine for each of the lines, in their order
AppendedEach(c, ls) ==
    IF ls = <<>> THEN c ELSE AppendedEach(Appended(c, Head(ls)), Tail(ls))

RECURSIVE BreaksIn(_)
\* the line breaks of the lines and the one that ends each of them
BreaksIn(ls) ==
    IF ls = <<>> THEN 0 ELSE Breaks(Head(ls)) + 1 + BreaksIn(Tail(ls))

\* the line break put after the content before the call, if one is needed
BreakBefore == IF call.before # <<>> /\ ~EndsWithBreak(call.before) THEN 1 ELSE 0

\* C30 as stated: appendLine(line) ends the content with a line break if it
\* is not empty and has none at its end, and appends the line and a line
\* break; appendLines(lines) does so for each line in order; after either
\* call the content ends with a line break and has no line break more than
\* these.
C30_AppendEndsWithBreak ==
    /\ call.op = "appendLine" =>
          /\ ~call.threw
          /\ content = Appended(call.before, call.line)
          /\ EndsWithBreak(content)
          /\ Breaks(content) = Breaks(call.before) + BreakBefore + Breaks(call.line) + 1
    /\ call.op = "appendLines" =>
          /\ ~call.threw
          /\ content = AppendedEach(call.before, call.block)
          /\ EndsWithBreak(content)
          /\ Breaks(content) = Breaks(call.before) + BreakBefore + BreaksIn(call.block)

\* C30 as amended: the same for appendLine and for appendLines with an array
\* that is not empty; appendLines([]) only ends a content that is not empty
\* and has no line break at its end, and leaves an empty content empty.
C30_AppendOfLinesEndsWithBreak ==
    /\ call.op = "appendLine" =>
          /\ ~call.threw
          /\ content = Appended(call.before, call.line)
          /\ EndsWithBreak(content)
          /\ Breaks(content) = Breaks(call.before) + BreakBefore + Breaks(call.line) + 1
    /\ (call.op = "appendLines" /\ call.block # <<>>) =>
          /\ ~call.threw
          /\ content = AppendedEach(call.before, call.block)
          /\ EndsWithBreak(content)
          /\ Breaks(content) = Breaks(call.before) + BreakBefore + BreaksIn(call.block)
    /\ (call.op = "appendLines" /\ call.block = <<>>) =>
          /\ ~call.threw
          /\ content = (IF BreakBefore = 1 THEN call.before \o <<NL>> ELSE call.before)
          /\ EndsWithBreak(content) <=> call.before # <<>>

\* appendLines put two lines after a content that had no line break at its
\* end
C30_Witness ==
    /\ call.op = "appendLines" /\ Len(call.block) = 2
    /\ call.before # <<>> /\ ~EndsWithBreak(call.before)
    /\ content = call.before \o <<NL>> \o call.block[1] \o <<NL>> \o call.block[2] \o <<NL>>

-----------------------------------------------------------------------------
(* What the claims about withFile speak of *)

RECURSIVE LineFeedsOnly(_)
\* the text with a line feed in the place of every carriage return followed
\* by a line feed and of every other carriage return
LineFeedsOnly(s) ==
    IF s = <<>> THEN <<>>
    ELSE IF Head(s) = CR /\ Len(s) >= 2 /\ s[2] = NL
      THEN <<NL>> \o LineFeedsOnly(SubSeq(s, 3, Len(s)))
    ELSE IF Head(s) = CR THEN <<NL>> \o LineFeedsOnly(Tail(s))
    ELSE <<Head(s)>> \o LineFeedsOnly(Tail(s))

RECURSIVE WithEOL(_, _)
\* the text with eol in the place of every line feed
WithEOL(s, eol) ==
    IF s = <<>> THEN <<>>
    ELSE (IF Head(s) = NL THEN eol ELSE <<Head(s)>>) \o WithEOL(Tail(s), eol)

\* C31: the callback of withFile gets the content of the file with a line
\* feed for every CRLF and for every other CR, so without any CR; when the
\* callback has returned, the file is written, with os.EOL for every line
\* feed, if and only if the content differs from what the callback got, and
\* it is left as it was otherwise.
C31_WithFileWritesIffChanged ==
    /\ file.pc = "callback" =>
          /\ content = LineFeedsOnly(file.disk)
          /\ \A i \in 1 .. Len(content) : content[i] # CR
          /\ file.originalContent = content
          /\ file.written = <<>>
    /\ file.pc = "save" =>
          (file.originalContent = LineFeedsOnly(file.disk) /\ file.written = <<>>)
    /\ file.pc = "done" =>
          /\ file.written # <<>> <=> content # file.originalContent
          /\ file.written # <<>> =>
                /\ file.written = <<WithEOL(content, file.eol)>>
                /\ file.disk = WithEOL(content, file.eol)
          /\ file.written = <<>> => LineFeedsOnly(file.disk) = file.originalContent

\* a file with a CRLF and another CR was handed over as two line feeds, the
\* callback changed it, and it was written with CRLF line endings
C31_Witness ==
    /\ file.pc = "done"
    /\ file.originalContent = <<"a", NL, NL>>
    /\ file.eol = <<CR, NL>>
    /\ content = <<NL, "a">>
    /\ file.written = <<(<<CR, NL, "a">>)>>

-----------------------------------------------------------------------------
(* What the later claims about the shell mock speak of *)

\* C32: assertDone() called on the controller of a session that sh.restore()
\* has ended (another closure, or the real exec, is installed) throws.
C32_AssertDoneOutsideMockModeThrows ==
    [][last'.op = "assertDone" =>
        \A s \in 1 .. Len(sessions) :
            (AssertDone(s) /\ shExec # s) => last'.outcome = "threw"]_vars

\* C33: a call of sh that fails for a non-zero exit code rejects with an
\* error that carries the exit code and the stderr, and the same error
\* whether the real executor or a mock result made it fail.
C33_FailureCarriesCodeAndStderr ==
    (/\ last.op = "sh" /\ last.outcome = "rejected"
     /\ last.value # NoMockFound(last.command))
    => \E answer \in {a \in ExecAnswers : a.exitCode # 0} :
          /\ last.value = CommandFailed(last.command, answer.stderr)
          /\ last.code = Given(answer.exitCode)
          /\ last.stderr = Given(answer.stderr)

\* C38: whether a registered matcher matches a command depends on its
\* pattern and the command only: at every moment the test the next sh call
\* makes of a matcher (r.exec(command), shell.ts:172) finds what a search of
\* the command for the pattern finds, whatever calls came before, so that a
\* matcher with k queued results serves k calls of a command it matches.
C38_MatchDependsOnPatternOnly ==
    \A s \in 1 .. Len(sessions) :
        \A c \in 1 .. Len(sessions[s].ctrls) :
            \A command \in MatchCommands :
                LET ctrl == sessions[s].ctrls[c]
                IN RegExpExec(ctrl.r, ctrl.lastIndex, command).found
                      = Occurs(ctrl.r, command)

\* C35: a result registered with returns(), on the controller of a session
\* or on any of its command controllers, before or after a reset(), is queued
\* from then on and makes assertDone() fail; it leaves its queue only when
\* it is handed to one sh call, as the front of the one queue that call
\* takes from, or when a reset() discards it.
C35_ResultIsQueuedHandedOrDiscarded ==
    [][\A s \in 1 .. Len(sessions) :
          /\ (last'.op = "returns" /\ sessions'[s] # sessions[s])
                => Unconsumed(sessions'[s])
          /\ \A c \in 0 .. Len(sessions[s].ctrls) :
                Len(Queue(sessions', s, c)) < Len(Queue(sessions, s, c)) =>
                    \/ /\ last'.op = "sh"
                       /\ Queue(sessions', s, c) = Tail(Queue(sessions, s, c))
                       /\ Delivered(Head(Queue(sessions, s, c)))
                       /\ TakenCount = 1
                    \/ last'.op = "reset"]_vars

-----------------------------------------------------------------------------
(* What the later claims about Text speak of *)

RECURSIVE WithoutRows(_, _, _)
\* the lines of ls from 0-based index i on whose index is not in rows
WithoutRows(ls, rows, i) ==
    IF i >= Len(ls) THEN <<>>
    ELSE (IF i \in rows THEN <<>> ELSE <<ls[i + 1]>>) \o WithoutRows(ls, rows, i + 1)

\* C34: every line deleteEveryBlock(block) removes is in a run of
\* block.length lines of the document before the call that match the block
\* one for one; the other lines stay, in their order.
C34_RemovedLinesBelongToRuns ==
    EveryBlockCall =>
        LET ps == Patterns(call.block)
            n == Len(Before)
        IN \E rows \in SUBSET (0 .. n - 1) :
              /\ \A i \in rows :
                    \E s \in 0 .. n - 1 :
                        BlockAt(Before, ps, s) /\ s <= i /\ i < s + Len(ps)
              /\ content = Join(WithoutRows(Before, rows, 0))

\* C36: a Text call that throws leaves the content as it was before the
\* call.
C36_ThrowLeavesContent ==
    call.threw => content = call.before

\* insertLine threw for a locator with two keys on a document of two lines
\* or more
C36_Witness ==
    /\ call.op = "insertLine" /\ call.threw
    /\ call.message[1] = "Please specify only one of these keys: "
    /\ Len(Before) >= 2
    /\ content = call.before

\* C39: deleteEveryBlock([p]) leaves what deleteEveryLine(p) leaves, and
\* deleteBlock([p]) leaves what deleteLine(p) leaves and throws when and
\* only when deleteLine(p) throws.
C39_OnePatternBlockIsLine ==
    /\ (call.op = "deleteEveryBlock" /\ Len(call.block) = 1) =>
          /\ ~call.threw
          /\ content = deleteEveryLine(call.before, call.block[1]).content
    /\ call.op = "deleteEveryLine" =>
          LET asBlock == deleteEveryBlock(call.before, call.block)
          IN ~asBlock.threw /\ content = asBlock.content
    /\ (call.op = "deleteBlock" /\ Len(call.block) = 1) =>
          LET asLine == deleteLine(call.before, call.block[1])
          IN /\ call.threw = asLine.threw
             /\ ~call.threw => content = asLine.content
    /\ call.op = "deleteLine" =>
          LET asBlock == deleteBlock(call.before, call.block)
          IN /\ call.threw = asBlock.threw
             /\ ~call.threw => content = asBlock.content

\* deleteEveryBlock with one pattern removed two lines or more
C39_Witness ==
    /\ call.op = "deleteEveryBlock" /\ Len(call.block) = 1
    /\ Cardinality({i \in 1 .. Len(Before) : Matches(Before[i], regex(call.block[1]))}) >= 2
    /\ content = deleteEveryLine(call.before, call.block[1]).content
    /\ content # call.before

\* the characters of part stand next to one another somewhere in line
IsSubstring(part, line) ==
    \E i \in 0 .. Len(line) - Len(part) : SubSeq(line, i + 1, i + Len(part)) = part

\* the call is an insertLine that returned and had an at, above or below
\* locator, of a line without a line break that is in no line of the
\* document before the call
InsertedNewLine ==
    /\ call.op = "insertLine" /\ ~call.threw
    /\ OnlyKey("at") \/ OnlyKey("above") \/ OnlyKey("below")
    /\ \A i \in 1 .. Len(call.line) : call.line[i] # NL
    /\ \A i \in 1 .. Len(Before) : ~IsSubstring(call.line, Before[i])

\* C40: after such an insertLine(L, locator), deleteLine(L) returns and
\* leaves the content that was there before the insertLine.
C40_DeleteLineUndoesInsertLine ==
    InsertedNewLine => deleteLine(content, Str(call.line)) = Returned(call.before)

\* the line went below a line in the middle of the document, and deleteLine
\* took it out again
C40_Witness ==
    /\ InsertedNewLine /\ OnlyKey("below")
    /\ Len(Before) >= 3
    /\ FirstMatch(ValueOf(call.where.below)) = 1
    /\ lines(content)[3] = call.line
    /\ deleteLine(content, Str(call.line)).content = call.before

-----------------------------------------------------------------------------
(* What the claim about sh calls in flight speaks of *)

\* the step starts a sh call while a mock session is installed
MockedStart == last'.op = "sh" /\ shExec # 0 /\ Len(inFlight') = Len(inFlight) + 1

\* C37: a sh call started in mock mode takes its result when it is started:
\* the promise it returns holds the front result of one queue, which that
\* step removes, or the no-mock error with every queue left alone; and
\* awaiting a promise, in whatever order, changes no queue and answers with
\* what that promise has held since its call was started.
C37_ResultIsTakenAtCallStart ==
    [][/\ MockedStart =>
            /\ inFlight' = Append(inFlight, last')
            /\ IF NoMockError
                 THEN QueuesUnchanged
                 ELSE /\ TakenCount = 1
                      /\ \A m \in Taken : Delivered(m)
                      /\ \A c \in 0 .. Len(Cur.ctrls) :
                            \/ Queue(sessions', shExec, c) = Queue(sessions, shExec, c)
                            \/ /\ Queue(sessions, shExec, c) # <<>>
                               /\ Queue(sessions', shExec, c) = Tail(Queue(sessions, shExec, c))
       /\ last'.op = "await" =>
            /\ sessions' = sessions
            /\ \E i \in 1 .. Len(inFlight) :
                  /\ last' = [inFlight[i] EXCEPT !.op = "await"]
                  /\ inFlight' = Settled(inFlight, i)]_vars

\* two calls were in flight on the default queue; the one awaited first was
\* answered with the failure it took when it was started, the other still
\* holds the stdout result, and the queue is empty
C37_Witness ==
    /\ shExec # 0
    /\ last.op = "await" /\ last.via = "mock" /\ last.from = 0
    /\ last.outcome = "rejected"
    /\ last.value = CommandFailed(last.command, <<"e">>)
    /\ Len(inFlight) = 1
    /\ inFlight[1].via = "mock" /\ inFlight[1].from = 0
    /\ inFlight[1].outcome = "resolved" /\ inFlight[1].value = <<"y">>
    /\ sessions[shExec].defaults = <<>>

=============================================================================
